---- MODULE Spec2Model ----
(***************************************************************************)
(* Connection lifecycle of the Snowflake MCP server                        *)
(* (src/snowflake_mcp_server.py): the module-level connection_pool, the    *)
(* acquire operation get_snowflake_connection, the release operation       *)
(* return_connection_to_pool and the tool functions that borrow a          *)
(* connection around one backend command.                                  *)
(*                                                                         *)
(* Threads run tool invocations. The steps of one invocation are split     *)
(* where the code reads or writes the shared connection_pool; the backend  *)
(* round trips on a connection that only the running thread can reach are  *)
(* folded into the neighbouring step.                                      *)
(*                                                                         *)
(* The OAuth token manager (src/oauth_handler.py): the token set of an     *)
(* OAuthTokenManager, its cache file, and the callback handler of the      *)
(* authorization flow. Each call on the manager is one step; time passes   *)
(* between calls.                                                          *)
(***************************************************************************)
EXTENDS Integers, Sequences, FiniteSets, TLC

VARIABLES
    cfg,              \* the SNOWFLAKE_* environment, read by os.getenv
    backend,          \* how the Snowflake account answers (fixed per run)
    connection_pool,  \* conn_key -> list of idle connection handles
    conns,            \* every backend connection established so far
    pc,               \* per thread: position in the tool invocation
    conn,             \* per thread: local variable conn (0 = unbound)
    key,              \* per thread: local conn_key of return_connection_to_pool
    acq,              \* per thread: what its get_snowflake_connection call did
    rel,              \* per thread: what its return_connection_to_pool call did
    tool,             \* per thread: the tool being run and how it ends
    args,             \* the command line settings of the server
    query,            \* per thread: the query text execute_query was given
    tokens,           \* OAuthTokenManager.tokens: the token set in memory
    token_cache_file, \* the content of the file at token_cache_file
    writable,         \* what happens when the cache file is written
    now,              \* time.time(), in seconds
    state,            \* the state the callback handler was set up with
    last,             \* the last token manager operation and its outcome
    call              \* per caller: its get_access_token call in progress

poolVars ==
    <<cfg, backend, connection_pool, conns, pc, conn, key, acq, rel, tool,
      args, query>>

oauthVars == <<tokens, token_cache_file, writable, now, state, last, call>>

vars == <<poolVars, oauthVars>>

-----------------------------------------------------------------------------
(* Bounds of the model *)

\* connections a run of the concurrent specification may establish
MaxConns == 6

\* the last instant (seconds) of a run of the token manager's specification
MaxTime == 3700
\* connections a run of a sequential specification may establish
MaxSeqConns == 3

\* program constant
MAX_POOL_SIZE == 5

\* tool invocations that can hold a connection at the same time: enough to
\* release one connection more than a pool key may keep
Threads == 1..(MAX_POOL_SIZE + 1)

\* the threads of the concurrent specification
ConcurrentThreads == {1, 2}

\* Python None, and an unset or empty environment variable (both falsy)
None == ""

\* choices of --auth-method
AuthMethods == {"password", "oauth"}

Roles == {"R", "R_W"}
Warehouses == {"W", "W2"}
WhOpt == Warehouses \cup {None}
\* values of SNOWFLAKE_WAREHOUSE: unset, a warehouse of the backend, or a
\* name the backend does not know
ConfigWarehouses == WhOpt \cup {"WH_MISSING"}

-----------------------------------------------------------------------------
(* Pure helpers *)

\* str(v) inside an f-string: None is rendered as the text "None"
FmtValue(v) == IF v = None THEN "None" ELSE v

\* (a check of the required variables that leaves the password out)
RequiredVarsSetButPassword(c) ==
    /\ c.account # None
    /\ c.user # None
    /\ c.role # None

\* required_vars / all(required_vars)
RequiredVarsSet(c) ==
    /\ c.account # None
    /\ c.user # None
    /\ c.password # None
    /\ c.role # None

\* conn_key of get_snowflake_connection
AcquireKey(c) ==
    LET base == c.account \o "_" \o c.user \o "_" \o c.role
    IN  IF c.warehouse # None THEN base \o "_" \o c.warehouse ELSE base

\* (a release key built from the configured role and warehouse, the key
\* the connection was acquired with, instead of the queried ones)
ReleaseKeyConfigured(account, user, role, warehouse) ==
    FmtValue(account) \o "_" \o FmtValue(user) \o "_" \o FmtValue(cfg.role)
        \o "_" \o FmtValue(cfg.warehouse)

\* conn_key of return_connection_to_pool
ReleaseKey(account, user, role, warehouse) ==
    FmtValue(account) \o "_" \o FmtValue(user) \o "_" \o FmtValue(role)
        \o "_" \o FmtValue(warehouse)

\* conn_key in connection_pool and len(connection_pool[conn_key]) > 0
PoolHasIdle(pool, k) == k \in DOMAIN pool /\ Len(pool[k]) > 0

\* (a pop that hands out the first handle while it removes the last)
PopHandleFirst(list) == list[1]
\* list.pop(): the handle removed (the last one) ...
PopHandle(list) == list[Len(list)]
\* (a pop that leaves the handle in the list)
PopRestKeeps(list) == list
\* ... and the list that remains
PopRest(list) == SubSeq(list, 1, Len(list) - 1)

\* connection_pool[k] = v
PoolSet(pool, k, v) ==
    [j \in DOMAIN pool \cup {k} |-> IF j = k THEN v ELSE pool[j]]

\* handles idle anywhere in the pool
IdleHandles(pool) ==
    UNION {{pool[k][i] : i \in 1..Len(pool[k])} : k \in DOMAIN pool}

-----------------------------------------------------------------------------
(* Session initialisation of a newly established connection.               *)
(* Each step yields the commands it issued (log), whether it raised out of *)
(* its own try block (raised) and, for the warehouse step, the warehouse   *)
(* that is active afterwards (wh).                                         *)

\* (a role step that logs the failure and goes on)
RoleStepLenient(c, b) ==
    [log |-> <<"USE ROLE " \o c.role>>, raised |-> FALSE]

\* cursor.execute(f"USE ROLE {SNOWFLAKE_ROLE}"): failure raises PermissionError
RoleStep(c, b) ==
    [log |-> <<"USE ROLE " \o c.role>>, raised |-> ~b.roleOk]

\* (a loop that goes on after a warehouse was selected)
RECURSIVE TryWarehousesNoBreak(_, _, _, _)
TryWarehousesNoBreak(rows, i, c, b) ==
    IF i > Len(rows) THEN [log |-> <<>>, wh |-> None]
    ELSE IF rows[i] = c.warehouse THEN TryWarehousesNoBreak(rows, i + 1, c, b)
    ELSE LET rest == TryWarehousesNoBreak(rows, i + 1, c, b)
         IN  [log |-> <<"USE WAREHOUSE " \o rows[i]>> \o rest.log,
              wh |-> IF rest.wh # None THEN rest.wh
                     ELSE IF rows[i] \in b.usable THEN rows[i] ELSE None]

\* for warehouse_info in warehouses: skip the configured one, stop at the
\* first USE WAREHOUSE that succeeds, continue after one that fails
RECURSIVE TryWarehouses(_, _, _, _)
TryWarehouses(rows, i, c, b) ==
    IF i > Len(rows) THEN [log |-> <<>>, wh |-> None]
    ELSE IF rows[i] = c.warehouse THEN TryWarehouses(rows, i + 1, c, b)
    ELSE IF rows[i] \in b.usable
         THEN [log |-> <<"USE WAREHOUSE " \o rows[i]>>, wh |-> rows[i]]
         ELSE LET rest == TryWarehouses(rows, i + 1, c, b)
              IN  [log |-> <<"USE WAREHOUSE " \o rows[i]>> \o rest.log,
                   wh |-> rest.wh]

\* the search for an accessible warehouse: SHOW WAREHOUSES, then the loop;
\* any exception is caught and logged
FallbackSearch(c, b) ==
    IF ~b.showOk THEN [log |-> <<"SHOW WAREHOUSES">>, wh |-> None]
    ELSE LET r == TryWarehouses(b.rows, 1, c, b)
         IN  [log |-> <<"SHOW WAREHOUSES">> \o r.log, wh |-> r.wh]

\* (a warehouse step that raises when no warehouse could be selected)
WarehouseStepFatal(c, b) ==
    IF c.warehouse = None THEN [log |-> <<>>, wh |-> None, raised |-> FALSE]
    ELSE IF c.warehouse \in b.usable
         THEN [log |-> <<"USE WAREHOUSE " \o c.warehouse>>,
               wh |-> c.warehouse, raised |-> FALSE]
         ELSE LET f == FallbackSearch(c, b)
              IN  [log |-> <<"USE WAREHOUSE " \o c.warehouse>> \o f.log,
                   wh |-> f.wh, raised |-> f.wh = None]

\* if SNOWFLAKE_WAREHOUSE: USE WAREHOUSE, on failure the fallback search
WarehouseStep(c, b) ==
    IF c.warehouse = None THEN [log |-> <<>>, wh |-> None, raised |-> FALSE]
    ELSE IF c.warehouse \in b.usable
         THEN [log |-> <<"USE WAREHOUSE " \o c.warehouse>>,
               wh |-> c.warehouse, raised |-> FALSE]
         ELSE LET f == FallbackSearch(c, b)
              IN  [log |-> <<"USE WAREHOUSE " \o c.warehouse>> \o f.log,
                   wh |-> f.wh, raised |-> FALSE]

\* if SNOWFLAKE_DATABASE: USE DATABASE; a failure (b.dbOk false) is caught
\* and logged
DatabaseStep(c, b) ==
    IF c.database = None THEN [log |-> <<>>, raised |-> FALSE]
    ELSE [log |-> <<"USE DATABASE " \o c.database>>, raised |-> FALSE]

\* if SNOWFLAKE_SCHEMA: USE SCHEMA; a failure (b.schemaOk false) is caught
\* and logged
SchemaStep(c, b) ==
    IF c.schema = None THEN [log |-> <<>>, raised |-> FALSE]
    ELSE [log |-> <<"USE SCHEMA " \o c.schema>>, raised |-> FALSE]

\* the four ALTER SESSION commands, in the order of the source
SessionParams ==
    << "ALTER SESSION SET STATEMENT_TIMEOUT_IN_SECONDS = 300",
       "ALTER SESSION SET TIMEZONE = 'UTC'",
       "ALTER SESSION SET USE_CACHED_RESULT = TRUE",
       "ALTER SESSION SET QUERY_TAG = 'snowflake_mcp_server'" >>

\* one try block around the four commands: the first failure (of command
\* b.paramFail) skips the rest and is caught and logged
ParamsStep(b) ==
    [log |-> IF b.paramFail = 0 THEN SessionParams
             ELSE SubSeq(SessionParams, 1, b.paramFail),
     raised |-> FALSE]

\* (an initialisation that selects the schema before the database)
SessionInitSchemaFirst(c, b) ==
    LET r == RoleStep(c, b)
        w == WarehouseStep(c, b)
    IN  IF r.raised
        THEN [error |-> "PermissionError", log |-> r.log,
              role |-> c.role, wh |-> None]
        ELSE [error |-> "none",
              log |-> r.log \o w.log \o SchemaStep(c, b).log
                        \o DatabaseStep(c, b).log \o ParamsStep(b).log,
              role |-> c.role, wh |-> w.wh]

\* the body of the outer try after connect(): the steps in order. The
\* result: the exception that leaves get_snowflake_connection ("none" when
\* the connection is returned), the commands issued, the session state.
SessionInit(c, b) ==
    LET r == RoleStep(c, b)
        w == WarehouseStep(c, b)
    IN  IF r.raised
        THEN [error |-> "PermissionError", log |-> r.log,
              role |-> c.role, wh |-> None]
        ELSE IF w.raised
        THEN [error |-> "Exception", log |-> r.log \o w.log,
              role |-> c.role, wh |-> w.wh]
        ELSE LET d == DatabaseStep(c, b)
                 sc == SchemaStep(c, b)
                 p == ParamsStep(b)
             IN  IF d.raised
                 THEN [error |-> "Exception", log |-> r.log \o w.log \o d.log,
                       role |-> c.role, wh |-> w.wh]
                 ELSE IF sc.raised
                 THEN [error |-> "Exception",
                       log |-> r.log \o w.log \o d.log \o sc.log,
                       role |-> c.role, wh |-> w.wh]
                 ELSE IF p.raised
                 THEN [error |-> "Exception",
                       log |-> r.log \o w.log \o d.log \o sc.log \o p.log,
                       role |-> c.role, wh |-> w.wh]
                 ELSE [error |-> "none",
                       log |-> r.log \o w.log \o d.log \o sc.log \o p.log,
                       role |-> c.role, wh |-> w.wh]

\* the exceptions snowflake.connector.connect can raise, named by their
\* message: the class of each ...
ErrorClass(msg) ==
    CASE msg \in {"Insufficient privileges", "Authentication failed",
                  "Authentication failed: Insufficient privileges",
                  "other DatabaseError"}           -> "DatabaseError"
      [] msg = "Interface: Authentication failed" -> "InterfaceError"
      [] OTHER                                    -> "Exception"

\* ... and the fragments its message consists of
Fragments(msg) ==
    CASE msg = "Insufficient privileges" -> <<"Insufficient privileges">>
      [] msg = "Authentication failed"   -> <<"Authentication failed">>
      [] msg = "Authentication failed: Insufficient privileges" ->
            <<"Authentication failed", ": ", "Insufficient privileges">>
      [] msg = "Interface: Authentication failed" ->
            <<"Interface: ", "Authentication failed">>
      [] OTHER -> <<msg>>

\* phrase in error_msg
Mentions(msg, phrase) ==
    \E i \in 1..Len(Fragments(msg)) : Fragments(msg)[i] = phrase

\* except snowflake.connector.errors.DatabaseError
IsDatabaseError(msg) == ErrorClass(msg) = "DatabaseError"

\* (except clauses that test for the authentication failure first)
ConnectErrorAuthFirst(msg) ==
    IF ~IsDatabaseError(msg) THEN ErrorClass(msg)
    ELSE IF Mentions(msg, "Authentication failed") THEN "ValueError"
    ELSE IF Mentions(msg, "Insufficient privileges") THEN "PermissionError"
    ELSE "DatabaseError"

\* the except clauses around connect(): the class of the exception that
\* leaves get_snowflake_connection when snowflake.connector.connect raised
ConnectError(msg) ==
    IF ~IsDatabaseError(msg) THEN ErrorClass(msg)
    ELSE IF Mentions(msg, "Insufficient privileges") THEN "PermissionError"
    ELSE IF Mentions(msg, "Authentication failed") THEN "ValueError"
    ELSE "DatabaseError"

\* ... and its message
ConnectMessage(msg, c) ==
    IF ~IsDatabaseError(msg) THEN msg
    ELSE IF Mentions(msg, "Insufficient privileges")
    THEN "Insufficient privileges for role " \o c.role \o ". Error: " \o msg
    ELSE IF Mentions(msg, "Authentication failed")
    THEN "Authentication failed. Please check your Snowflake credentials."
    ELSE msg

\* the message of the ValueError raised for missing required variables
MissingVarsMessage ==
    "Missing required Snowflake environment variables. Ensure SNOWFLAKE_ACCOUNT, SNOWFLAKE_USER, SNOWFLAKE_PASSWORD, and SNOWFLAKE_ROLE are set."

\* the message of the PermissionError raised when USE ROLE is rejected
RoleMessage(c) ==
    "Cannot set role to " \o c.role \o ". Error: role rejected"

\* connect_params: the credentials snowflake.connector.connect is called with
ConnectParams(c) ==
    [account |-> c.account, user |-> c.user, password |-> c.password,
     role |-> c.role]

\* no call of snowflake.connector.connect
NoParams == [k \in {} |-> ""]

-----------------------------------------------------------------------------
(* Connections and the records of one tool invocation *)

\* a connection as snowflake.connector.connect returns it and the session
\* initialisation leaves it; closed: the connection manager called close()
NewConn(role, wh) == [closed |-> FALSE, role |-> role, wh |-> wh]

\* (a close that leaves the connection open)
CloseConnLeavesOpen(cs, c) == cs

\* conn.close() called by the connection manager (the call may raise; the
\* callers catch that)
CloseConn(cs, c) == [cs EXCEPT ![c].closed = TRUE]

NoAcq ==
    [res |-> "none", probe |-> "none", dead |-> 0, log |-> <<>>,
     msg |-> "", params |-> NoParams]
NoRel == [res |-> "none", queryOk |-> TRUE]
NoTool == [kind |-> "none", res |-> "none", releases |-> 0]

ToolKinds == {"execute_query", "catalog", "server_info"}

\* A query text is a sequence of characters. The characters of the model
\* are the letters of the write operations and the letter x in both cases,
\* two letters whose upper case is not the same letter in capitals, the
\* space and the digit 1.
LowerLetters ==
    <<"a", "c", "d", "e", "i", "l", "n", "o", "p", "r", "s", "t", "u", "x">>
UpperLetters ==
    <<"A", "C", "D", "E", "I", "L", "N", "O", "P", "R", "S", "T", "U", "X">>

\* str.upper() of one character: a lower-case letter becomes its capital,
\* the dotless i becomes I, the sharp s becomes SS, any other character
\* stays
UpperChar(ch) ==
    IF \E i \in 1..Len(LowerLetters) : LowerLetters[i] = ch
    THEN <<UpperLetters[CHOOSE i \in 1..Len(LowerLetters) : LowerLetters[i] = ch]>>
    ELSE IF ch = "dotless-i" THEN <<"I">>
    ELSE IF ch = "sharp-s" THEN <<"S", "S">>
    ELSE <<ch>>

\* query.upper()
RECURSIVE Upper(_)
Upper(text) ==
    IF text = <<>> THEN <<>>
    ELSE UpperChar(Head(text)) \o Upper(Tail(text))

\* word in text
Contains(text, word) ==
    \E i \in 0..(Len(text) - Len(word)) :
        SubSeq(text, i + 1, i + Len(word)) = word

\* ["INSERT", "UPDATE", "DELETE", "CREATE", "DROP", "ALTER"]
WriteOps ==
    {<<"I", "N", "S", "E", "R", "T">>, <<"U", "P", "D", "A", "T", "E">>,
     <<"D", "E", "L", "E", "T", "E">>, <<"C", "R", "E", "A", "T", "E">>,
     <<"D", "R", "O", "P">>, <<"A", "L", "T", "E", "R">>}

\* (a test on the text as it was written)
WriteGuardCaseSensitive(a, text) ==
    ~a.allow_write /\ \E write_op \in WriteOps : Contains(text, write_op)

\* not args.allow_write and any(write_op in query.upper() for write_op in
\* [...]): execute_query raises ValueError
WriteGuard(a, text) ==
    ~a.allow_write /\ \E write_op \in WriteOps : Contains(Upper(text), write_op)

\* class DefaultArgs: allow_write = False
DefaultArgs == [allow_write |-> FALSE]

\* no query text (the tool takes none)
NoQuery == <<>>

\* the text of a query that reads
SelectOne == <<"S", "E", "L", "E", "C", "T", " ", "1">>

\* what the tool function does with an exception: server_info catches every
\* exception and reports it in its result, the other tools re-raise
ToolOutcome(kind, raised) ==
    IF kind = "server_info" THEN "returned"
    ELSE IF raised THEN "raised" ELSE "returned"

\* (a release at the end of the try block instead of in finally)
ReleaseAfterSuccess(commandRaised) == ~commandRaised

\* finally: return_connection_to_pool(conn) -- runs whether or not the
\* command raised
ReleaseInFinally(commandRaised) == TRUE

\* (an acquire that returns the popped connection without heeding the probe)
AfterProbeIgnored(probeOk) == "return"

\* get_snowflake_connection after the probe of a popped connection:
\* return it when the probe succeeded, otherwise close it and create one
AfterProbe(probeOk) == IF probeOk THEN "return" ELSE "create"

\* (a fast path that runs the session initialisation again)
ReuseLogReinit(c, b) == SessionInit(c, b).log

\* the commands issued on a popped connection after its probe succeeded:
\* none, the connection is returned at once
ReuseLog(c, b) == <<>>

\* (an except clause whose close is not itself guarded)
ReleaseRaisesOnClose(closeOk) == ~closeOk

\* the except clause of return_connection_to_pool: the error is logged, the
\* connection closed, a failure of that close logged; TRUE when an exception
\* leaves return_connection_to_pool
ReleaseRaises(closeOk) == FALSE

\* (a capacity test that admits one connection more)
BelowCapacityInclusive(n) == n <= MAX_POOL_SIZE

\* len(connection_pool[conn_key]) < MAX_POOL_SIZE
BelowCapacity(n) == n < MAX_POOL_SIZE

-----------------------------------------------------------------------------
(* Initial states *)

BaseCfg ==
    [account |-> "A", user |-> "U", password |-> "pw", role |-> "R",
     warehouse |-> None, database |-> None, schema |-> None,
     auth_method |-> "password"]

HealthyBackend ==
    [connect |-> "ok", roleOk |-> TRUE, usable |-> Warehouses,
     showOk |-> TRUE, rows |-> <<"W", "W2">>, paramFail |-> 0,
     dbOk |-> TRUE, schemaOk |-> TRUE]

ConnectFailures ==
    {"Insufficient privileges", "Authentication failed",
     "Authentication failed: Insufficient privileges",
     "Interface: Authentication failed",
     "other DatabaseError", "other error"}

ShowAnswers ==
    {[showOk |-> FALSE, rows |-> <<>>]}
      \cup {[showOk |-> TRUE, rows |-> r] :
              r \in {<<>>, <<"W">>, <<"W2">>, <<"W", "W2">>, <<"W2", "W">>}}

\* the backends of the sequential specification of session initialisation
Backends ==
    {[HealthyBackend EXCEPT !.connect = m] : m \in ConnectFailures}
      \cup {[HealthyBackend EXCEPT !.roleOk = FALSE]}
      \cup {[connect |-> "ok", roleOk |-> TRUE, usable |-> u,
             showOk |-> s.showOk, rows |-> s.rows, paramFail |-> 0,
             dbOk |-> TRUE, schemaOk |-> TRUE] :
               u \in SUBSET Warehouses, s \in ShowAnswers}
      \cup {[HealthyBackend EXCEPT !.dbOk = d, !.schemaOk = sc,
                                   !.paramFail = p] :
               d \in BOOLEAN, sc \in BOOLEAN, p \in 0..4}

\* the environments of the sequential specification: each required variable
\* set or unset, each optional one set or unset
Configs ==
    {[account |-> a, user |-> u, password |-> pw, role |-> r,
      warehouse |-> w, database |-> d, schema |-> s,
      auth_method |-> "password"] :
        a \in {None, "A"}, u \in {None, "U"}, pw \in {None, "pw"},
        r \in {None, "R"}, w \in ConfigWarehouses, d \in {None, "D"},
        s \in {None, "S"}}

InitThreads ==
    /\ connection_pool = [k \in {} |-> <<>>]
    /\ conns = <<>>
    /\ pc = [t \in Threads |-> "idle"]
    /\ conn = [t \in Threads |-> 0]
    /\ key = [t \in Threads |-> ""]
    /\ acq = [t \in Threads |-> NoAcq]
    /\ rel = [t \in Threads |-> NoRel]
    /\ tool = [t \in Threads |-> NoTool]
    /\ args = DefaultArgs
    /\ query = [t \in Threads |-> NoQuery]

-----------------------------------------------------------------------------
(* Actions *)

\* the tool function returns or raises
Finish(t, result) ==
    /\ pc' = [pc EXCEPT ![t] = "done"]
    /\ tool' = [tool EXCEPT ![t].res = result]

\* A tool is invoked (execute_query with one of the texts). execute_query
\* raises ValueError for a write operation it does not allow; otherwise the
\* tool calls get_snowflake_connection, which validates the environment,
\* computes conn_key and tests the pool for an idle connection.
Invoke(t, kinds, texts) ==
    /\ pc[t] = "idle"
    /\ \E k \in kinds :
       \E q \in IF k = "execute_query" THEN texts ELSE {NoQuery} :
        /\ query' = [query EXCEPT ![t] = q]
        /\ IF k = "execute_query" /\ WriteGuard(args, q)
           THEN /\ acq' = acq
                /\ pc' = [pc EXCEPT ![t] = "done"]
                /\ tool' = [tool EXCEPT ![t] =
                      [kind |-> k, res |-> ToolOutcome(k, TRUE), releases |-> 0]]
           ELSE IF ~RequiredVarsSet(cfg)
           THEN /\ acq' = [acq EXCEPT ![t].res = "ValueError",
                                     ![t].msg = MissingVarsMessage]
                /\ pc' = [pc EXCEPT ![t] = "done"]
                /\ tool' = [tool EXCEPT ![t] =
                      [kind |-> k, res |-> ToolOutcome(k, TRUE), releases |-> 0]]
           ELSE /\ acq' = acq
                /\ tool' = [tool EXCEPT ![t] =
                      [kind |-> k, res |-> "none", releases |-> 0]]
                /\ pc' = [pc EXCEPT ![t] =
                      IF PoolHasIdle(connection_pool, AcquireKey(cfg))
                      THEN "acq_pop" ELSE "acq_create"]
    /\ UNCHANGED <<oauthVars, args, cfg, backend, connection_pool, conns, conn, key, rel>>

\* conn = connection_pool[conn_key].pop(), then the SELECT 1 probe.
\* An empty list (another thread popped first) raises IndexError inside the
\* try; conn is unbound, so the close in the handler raises too and is
\* swallowed, and the function goes on to create a connection.
AcquirePop(t) ==
    /\ pc[t] = "acq_pop"
    /\ LET k == AcquireKey(cfg)
           list == connection_pool[k]
       IN  IF Len(list) = 0
           THEN /\ pc' = [pc EXCEPT ![t] = "acq_create"]
                /\ UNCHANGED <<connection_pool, conns, conn, acq>>
           ELSE LET c == PopHandle(list) IN
                /\ connection_pool' = PoolSet(connection_pool, k, PopRest(list))
                /\ \E probeOk \in BOOLEAN :
                     IF AfterProbe(probeOk) = "return"
                     THEN /\ conn' = [conn EXCEPT ![t] = c]
                          /\ acq' = [acq EXCEPT ![t].res = "reused",
                                       ![t].log = ReuseLog(cfg, backend),
                                       ![t].probe = IF probeOk THEN "ok" ELSE "fail",
                                       ![t].dead = IF probeOk THEN 0 ELSE c]
                          /\ pc' = [pc EXCEPT ![t] = "have"]
                          /\ conns' = conns
                     ELSE /\ conns' = CloseConn(conns, c)
                          /\ acq' = [acq EXCEPT
                                       ![t].probe = IF probeOk THEN "ok" ELSE "fail",
                                       ![t].dead = c]
                          /\ pc' = [pc EXCEPT ![t] = "acq_create"]
                          /\ conn' = conn
    /\ UNCHANGED <<oauthVars, args, query, cfg, backend, key, rel, tool>>

\* snowflake.connector.connect and the session initialisation, on a
\* connection no other thread can reach
AcquireCreate(t, max) ==
    /\ pc[t] = "acq_create"
    /\ Len(conns) < max
    /\ IF backend.connect # "ok"
       THEN /\ acq' = [acq EXCEPT ![t].res = ConnectError(backend.connect),
                         ![t].msg = ConnectMessage(backend.connect, cfg),
                         ![t].params = ConnectParams(cfg)]
            /\ Finish(t, ToolOutcome(tool[t].kind, TRUE))
            /\ UNCHANGED <<conns, conn>>
       ELSE LET c == Len(conns) + 1
                s == SessionInit(cfg, backend)
            IN  /\ conns' = Append(conns, NewConn(s.role, s.wh))
                /\ IF s.error # "none"
                   THEN /\ acq' = [acq EXCEPT ![t].res = s.error, ![t].log = s.log,
                                     ![t].msg = IF s.error = "PermissionError"
                                                THEN RoleMessage(cfg) ELSE "",
                                     ![t].params = ConnectParams(cfg)]
                        /\ Finish(t, ToolOutcome(tool[t].kind, TRUE))
                        /\ conn' = conn
                   ELSE /\ acq' = [acq EXCEPT ![t].res = "created", ![t].log = s.log,
                                     ![t].params = ConnectParams(cfg)]
                        /\ conn' = [conn EXCEPT ![t] = c]
                        /\ pc' = [pc EXCEPT ![t] = "have"]
                        /\ tool' = tool
    /\ UNCHANGED <<oauthVars, args, query, cfg, backend, connection_pool, key, rel>>

\* the session identities cursor.execute can leave behind: a catalog
\* command leaves the session as it is, a query may switch role and
\* warehouse or leave them (as a query that fails does)
Effects(t, mutate) ==
    IF mutate /\ tool[t].kind = "execute_query"
    THEN Roles \X WhOpt
    ELSE {<<conns[conn[t]].role, conns[conn[t]].wh>>}

\* the body of the tool's try block on the borrowed connection:
\* cursor.execute, then cursor.description and the fetches; then the finally
\* clause. The body raises when execute raises (the session as it was) or
\* when a later call raises, after execute has had its effect on the session
Execute(t, mutate) ==
    /\ pc[t] = "have"
    /\ \E ok \in BOOLEAN :
       \E e \in Effects(t, mutate) :
        /\ conns' = [conns EXCEPT ![conn[t]].role = e[1], ![conn[t]].wh = e[2]]
        /\ IF ReleaseInFinally(~ok)
           THEN /\ pc' = [pc EXCEPT ![t] = "rel_query"]
                /\ tool' = [tool EXCEPT ![t].res = ToolOutcome(tool[t].kind, ~ok)]
           ELSE Finish(t, ToolOutcome(tool[t].kind, ~ok))
    /\ UNCHANGED <<oauthVars, args, query, cfg, backend, connection_pool, conn, key, acq, rel>>

\* return_connection_to_pool ends in its except clause: conn.close(), then
\* the tool function ends with the command's outcome, unless an exception
\* leaves return_connection_to_pool
ReleaseExcept(t, why, closeOk) ==
    /\ conns' = CloseConn(conns, conn[t])
    /\ IF ReleaseRaises(closeOk)
       THEN /\ rel' = [rel EXCEPT ![t].res = "raised"]
            /\ Finish(t, ToolOutcome(tool[t].kind, TRUE))
       ELSE /\ rel' = [rel EXCEPT ![t].res = why]
            /\ Finish(t, tool[t].res)

\* return_connection_to_pool is entered: the identity query
\* SELECT CURRENT_ACCOUNT(), CURRENT_USER(), CURRENT_ROLE(), CURRENT_WAREHOUSE()
\* and the conn_key built from its row
ReleaseQuery(t) ==
    /\ pc[t] = "rel_query"
    /\ \E queryOk \in BOOLEAN :
        IF queryOk
        THEN /\ tool' = [tool EXCEPT ![t].releases = @ + 1]
             /\ key' = [key EXCEPT ![t] =
                   ReleaseKey(cfg.account, cfg.user,
                              conns[conn[t]].role, conns[conn[t]].wh)]
             /\ pc' = [pc EXCEPT ![t] = "rel_check_key"]
             /\ UNCHANGED <<conns, rel>>
        ELSE \E closeOk \in BOOLEAN :
             /\ conns' = CloseConn(conns, conn[t])
             /\ rel' = [rel EXCEPT ![t].queryOk = FALSE,
                          ![t].res = IF ReleaseRaises(closeOk)
                                     THEN "raised" ELSE "closed_error"]
             /\ pc' = [pc EXCEPT ![t] = "done"]
             /\ tool' = [tool EXCEPT ![t].releases = @ + 1,
                           ![t].res = IF ReleaseRaises(closeOk)
                                      THEN ToolOutcome(tool[t].kind, TRUE) ELSE @]
             /\ key' = key
    /\ UNCHANGED <<oauthVars, args, query, cfg, backend, connection_pool, conn, acq>>

\* if conn_key not in connection_pool:
ReleaseCheckKey(t) ==
    /\ pc[t] = "rel_check_key"
    /\ pc' = [pc EXCEPT ![t] = IF key[t] \in DOMAIN connection_pool
                               THEN "rel_check_len" ELSE "rel_init_key"]
    /\ UNCHANGED <<oauthVars, args, query, cfg, backend, connection_pool, conns, conn, key, acq, rel, tool>>

\*     connection_pool[conn_key] = []
ReleaseInitKey(t) ==
    /\ pc[t] = "rel_init_key"
    /\ connection_pool' = PoolSet(connection_pool, key[t], <<>>)
    /\ pc' = [pc EXCEPT ![t] = "rel_check_len"]
    /\ UNCHANGED <<oauthVars, args, query, cfg, backend, conns, conn, key, acq, rel, tool>>

\* if len(connection_pool[conn_key]) < MAX_POOL_SIZE: ... else: conn.close()
\* A close that raises lands in the except clause, which closes again.
ReleaseCheckLen(t) ==
    /\ pc[t] = "rel_check_len"
    /\ IF BelowCapacity(Len(connection_pool[key[t]]))
       THEN /\ pc' = [pc EXCEPT ![t] = "rel_append"]
            /\ UNCHANGED <<conns, rel, tool>>
       ELSE \E closeOk \in BOOLEAN :
            IF closeOk
            THEN /\ conns' = CloseConn(conns, conn[t])
                 /\ rel' = [rel EXCEPT ![t].res = "closed_full"]
                 /\ Finish(t, tool[t].res)
            ELSE \E closeAgainOk \in BOOLEAN :
                 ReleaseExcept(t, "closed_full", closeAgainOk)
    /\ UNCHANGED <<oauthVars, args, query, cfg, backend, connection_pool, conn, key, acq>>

\*     connection_pool[conn_key].append(conn)
ReleaseAppend(t) ==
    /\ pc[t] = "rel_append"
    /\ connection_pool' = PoolSet(connection_pool, key[t],
                                  Append(connection_pool[key[t]], conn[t]))
    /\ rel' = [rel EXCEPT ![t].res = "pooled"]
    /\ Finish(t, tool[t].res)
    /\ UNCHANGED <<oauthVars, args, query, cfg, backend, conns, conn, key, acq>>

\* the result has been delivered; the locals of the invocation are gone
Return(t) ==
    /\ pc[t] = "done"
    /\ pc' = [pc EXCEPT ![t] = "idle"]
    /\ conn' = [conn EXCEPT ![t] = 0]
    /\ key' = [key EXCEPT ![t] = ""]
    /\ acq' = [acq EXCEPT ![t] = NoAcq]
    /\ rel' = [rel EXCEPT ![t] = NoRel]
    /\ tool' = [tool EXCEPT ![t] = NoTool]
    /\ query' = [query EXCEPT ![t] = NoQuery]
    /\ UNCHANGED <<oauthVars, args, cfg, backend, connection_pool, conns>>

-----------------------------------------------------------------------------
(* The OAuth token manager (oauth_handler.py).                             *)
(* A token set is a dict: a function from the keys it holds to their       *)
(* values. The operations are operators from the manager's state (tokens,  *)
(* cache file), the time and the token endpoint's answer to the state      *)
(* afterwards and the value returned.                                      *)

\* {}
EmptyDict == [k \in {} |-> None]

\* k in d
Has(d, k) == k \in DOMAIN d

\* d.get(k, default)
Get(d, k, default) == IF k \in DOMAIN d THEN d[k] ELSE default

\* d[k] = v
DictSet(d, k, v) == [j \in DOMAIN d \cup {k} |-> IF j = k THEN v ELSE d[j]]

\* token_data.get('expires_in', 3600)
DefaultLifetime == 3600

\* the cache file: absent, text that is not decodable as JSON (an empty or
\* cut file among them), bytes that are not text in the encoding open()
\* reads with, or the JSON text of a dict
MissingFile == [kind |-> "missing", data |-> EmptyDict]
CorruptFile == [kind |-> "corrupt", data |-> EmptyDict]
BinaryFile == [kind |-> "binary", data |-> EmptyDict]

\* what happens when _save_tokens writes the cache file: the text is
\* written; makedirs or open raises IOError; open succeeds and the write
\* raises IOError (no space left, file size limit)
CanWrite == "text written"
OpenFails == "open fails"
WriteFails == "write fails"
DiskStates == {CanWrite, OpenFails, WriteFails}

\* json.dump(self.tokens, f): the file holds the JSON text of the dict
JsonDump(d) == [kind |-> "json", data |-> d]

\* _load_cached_tokens: {} when the file does not exist or json.load raises
\* JSONDecodeError, the decoded dict when it decodes; on bytes that are not
\* text json.load raises UnicodeDecodeError, which the except clause does
\* not name: the exception leaves _load_cached_tokens (tokens: no value)
load_cached_tokens(f) ==
    [tokens |-> IF f.kind = "json" THEN f.data ELSE EmptyDict,
     raised |-> f.kind = "binary"]

\* _save_tokens: makedirs of the file's directory, open(..., 'w'), json.dump.
\* An IOError is logged: raised by makedirs or open the file stays as it
\* was, raised by the write the file, emptied by open, is left empty or cut
save_tokens(f, d, w) ==
    IF w = OpenFails THEN f
    ELSE IF w = WriteFails THEN CorruptFile
    ELSE JsonDump(d)

\* a token endpoint answer: rejected (raise_for_status or the request raises
\* requests.RequestException) or a token response; r = None: no
\* refresh_token in the response, e = 0: no expires_in
Rejected == [ok |-> FALSE, body |-> EmptyDict]

TokenBody(a, r, e) ==
    [k \in {"access_token", "token_type"}
             \cup (IF r = None THEN {} ELSE {"refresh_token"})
             \cup (IF e = 0 THEN {} ELSE {"expires_in"}) |->
        CASE k = "access_token"  -> a
          [] k = "token_type"    -> "Bearer"
          [] k = "refresh_token" -> r
          [] k = "expires_in"    -> e]

AccessTokens == {"a1", "a2"}
RefreshTokens == {"r2"}
Lifetimes == {0, 1800}

Responses ==
    {Rejected} \cup
    {[ok |-> TRUE, body |-> TokenBody(a, r, e)] :
        a \in AccessTokens, r \in RefreshTokens \cup {None}, e \in Lifetimes}

\* token_data['expires_at'] = time.time() + token_data.get('expires_in', 3600)
WithExpiry(body, t) ==
    DictSet(body, "expires_at", t + Get(body, "expires_in", DefaultLifetime))

\* (an exchange that drops the stored token set when the code is rejected)
ExchangeClearsOnReject(tk, f, w, t, resp) ==
    IF ~resp.ok
    THEN [tokens |-> EmptyDict, file |-> save_tokens(f, EmptyDict, w),
          ok |-> FALSE, posts |-> 1]
    ELSE LET token_data == WithExpiry(resp.body, t)
         IN  [tokens |-> token_data, file |-> save_tokens(f, token_data, w),
              ok |-> TRUE, posts |-> 1]

\* exchange_code_for_token: the state afterwards and the value returned
exchange_code_for_token(tk, f, w, t, resp) ==
    IF ~resp.ok
    THEN [tokens |-> tk, file |-> f, ok |-> FALSE, posts |-> 1]
    ELSE LET token_data == WithExpiry(resp.body, t)
         IN  [tokens |-> token_data, file |-> save_tokens(f, token_data, w),
              ok |-> TRUE, posts |-> 1]

\* (a refresh that takes the response as it is)
KeepRefreshTokenNever(token_data, tk) == token_data

\* if 'refresh_token' not in token_data and 'refresh_token' in self.tokens:
\*     token_data['refresh_token'] = self.tokens['refresh_token']
KeepRefreshToken(token_data, tk) ==
    IF ~Has(token_data, "refresh_token") /\ Has(tk, "refresh_token")
    THEN DictSet(token_data, "refresh_token", tk["refresh_token"])
    ELSE token_data

\* (a rejected refresh that drops the token set and its file)
RefreshFailedClears(tk, f, posts) ==
    [tokens |-> EmptyDict, file |-> MissingFile, ok |-> FALSE, posts |-> posts]

\* refresh_token returns False: no refresh token stored (no request made), or
\* the except clause for requests.RequestException
RefreshFailed(tk, f, posts) ==
    [tokens |-> tk, file |-> f, ok |-> FALSE, posts |-> posts]

\* refresh_token: the state afterwards, the value returned and the number
\* of requests posted to the token endpoint
refresh_token(tk, f, w, t, resp) ==
    IF ~Has(tk, "refresh_token") THEN RefreshFailed(tk, f, 0)
    ELSE IF ~resp.ok THEN RefreshFailed(tk, f, 1)
    ELSE LET token_data == KeepRefreshToken(WithExpiry(resp.body, t), tk)
         IN  [tokens |-> token_data, file |-> save_tokens(f, token_data, w),
              ok |-> TRUE, posts |-> 1]

\* (an expiry test with the comparison the wrong way round)
ExpiredReversed(tk, t) == t < Get(tk, "expires_at", 0)

\* time.time() > self.tokens.get('expires_at', 0)
Expired(tk, t) == t > Get(tk, "expires_at", 0)

\* not self.tokens or 'access_token' not in self.tokens
NoAccessToken(tk) == tk = EmptyDict \/ ~Has(tk, "access_token")

\* (a get_access_token that refreshes whenever a refresh token is stored)
GetAccessTokenEager(tk, f, w, t, resp) ==
    IF NoAccessToken(tk)
    THEN [tokens |-> EmptyDict, file |-> f, ret |-> None, posts |-> 0]
    ELSE IF Expired(tk, t) \/ Has(tk, "refresh_token")
    THEN LET r == refresh_token(tk, f, w, t, resp)
         IN  [tokens |-> r.tokens, file |-> r.file, posts |-> r.posts,
              ret |-> IF r.ok THEN Get(r.tokens, "access_token", None)
                      ELSE None]
    ELSE [tokens |-> tk, file |-> f, ret |-> Get(tk, "access_token", None),
          posts |-> 0]

\* get_access_token: the state afterwards, the value returned (None: no
\* token) and the requests posted
get_access_token(tk, f, w, t, resp) ==
    IF NoAccessToken(tk)
    THEN [tokens |-> tk, file |-> f, ret |-> None, posts |-> 0]
    ELSE IF Expired(tk, t)
    THEN LET r == refresh_token(tk, f, w, t, resp)
         IN  [tokens |-> r.tokens, file |-> r.file, posts |-> r.posts,
              ret |-> IF r.ok THEN Get(r.tokens, "access_token", None)
                      ELSE None]
    ELSE [tokens |-> tk, file |-> f, ret |-> Get(tk, "access_token", None),
          posts |-> 0]

\* (a validity test that does not count on the refresh token)
HasValidTokensUnexpiredOnly(tk, t) ==
    IF NoAccessToken(tk) THEN FALSE ELSE ~Expired(tk, t)

\* has_valid_tokens
has_valid_tokens(tk, t) ==
    IF NoAccessToken(tk) THEN FALSE
    ELSE IF Expired(tk, t) THEN Has(tk, "refresh_token")
    ELSE TRUE

\* max(0, int(expires_in / unit))
Remaining(tk, t, unit) ==
    IF tk["expires_at"] - t <= 0 THEN 0 ELSE (tk["expires_at"] - t) \div unit

\* get_token_info
get_token_info(tk, t) ==
    IF tk = EmptyDict THEN [status |-> "no_tokens"]
    ELSE IF Has(tk, "expires_at")
    THEN [status |-> IF has_valid_tokens(tk, t) THEN "valid" ELSE "expired",
          token_type |-> Get(tk, "token_type", None),
          has_refresh_token |-> Has(tk, "refresh_token"),
          expires_in_seconds |-> Remaining(tk, t, 1),
          expires_in_minutes |-> Remaining(tk, t, 60),
          expires_in_hours |-> Remaining(tk, t, 3600)]
    ELSE [status |-> IF has_valid_tokens(tk, t) THEN "valid" ELSE "expired",
          token_type |-> Get(tk, "token_type", None),
          has_refresh_token |-> Has(tk, "refresh_token")]

\* the dict get_connection_parameters returns on success
OAuthParams(tk) ==
    [token |-> Get(tk, "access_token", None), authenticator |-> "oauth"]

\* get_connection_parameters: the state afterwards, the dict returned and
\* the requests posted
get_connection_parameters(tk, f, w, t, resp) ==
    IF ~has_valid_tokens(tk, t)
    THEN IF Has(tk, "refresh_token")
         THEN LET r == refresh_token(tk, f, w, t, resp)
              IN  [tokens |-> r.tokens, file |-> r.file, posts |-> r.posts,
                   params |-> IF r.ok THEN OAuthParams(r.tokens)
                              ELSE EmptyDict]
         ELSE [tokens |-> tk, file |-> f, posts |-> 0, params |-> EmptyDict]
    ELSE [tokens |-> tk, file |-> f, posts |-> 0, params |-> OAuthParams(tk)]

\* clear_tokens: the token set emptied, the cache file removed when it
\* exists (a failure of os.remove is logged)
clear_tokens(f, removeOk) ==
    [tokens |-> EmptyDict,
     file |-> IF f.kind # "missing" /\ removeOk THEN MissingFile ELSE f]

\* self.path.startswith('/oauth/callback')
StartsWithCallback(path) == path \in {"/oauth/callback", "/oauth/callback2"}

\* not ('state' not in params or params['state'][0] != state)
StateAccepted(given, st) == given # None /\ given = st

\* OAuthCallbackHandler.do_GET for a request with the given path and query
\* parameters (None: parameter absent): the HTTP status sent, the state of
\* the token manager afterwards and the requests posted
do_GET(req, st, tk, f, w, t, resp) ==
    LET reply(code, text) ==
            [status |-> code, msg |-> text, tokens |-> tk, file |-> f,
             posts |-> 0]
    IN  IF ~StartsWithCallback(req.path) THEN reply(404, "Not Found")
        ELSE IF ~StateAccepted(req.state, st)
        THEN reply(400, "Error: Invalid state parameter")
        ELSE IF req.error # None
        THEN reply(400, "Error: " \o req.error \o " - Unknown error")
        ELSE IF req.code = None
        THEN reply(400, "Error: No authorization code received")
        ELSE LET x == exchange_code_for_token(tk, f, w, t, resp)
             IN  [status |-> IF x.ok THEN 200 ELSE 500,
                  msg |-> IF x.ok
                          THEN "Authentication successful! You can close this window and return to the application."
                          ELSE "Error: Failed to exchange code for token",
                  tokens |-> x.tokens, file |-> x.file, posts |-> x.posts]

-----------------------------------------------------------------------------
(* The token manager's state and the calls made on it *)

\* secrets.token_urlsafe(32): the state drawn for the authorization URL
StateValues == {"s1"}

\* GET requests: the state parameter absent, the issued one, another one
Requests ==
    [path : {"/oauth/callback", "/oauth/callback2", "/"},
     state : StateValues \cup {None, "s2"},
     error : {None, "access_denied"},
     code : {None, "c1"}]

NoRequest == [path |-> None, state |-> None, error |-> None, code |-> None]

\* cache files found at start-up: none, undecodable ones, and token sets
\* written by other means that hold no expiry
InitFiles ==
    {MissingFile, CorruptFile, BinaryFile,
     JsonDump([access_token |-> "a1"]),
     JsonDump([access_token |-> "a1", refresh_token |-> "r1"])}

\* the seconds that pass between two calls
Steps == {1800, 3601}

\* the cache file of a server that authenticated with OAuth earlier: an
\* access token that has not expired
UnexpiredFile ==
    JsonDump([access_token |-> "a1", refresh_token |-> "r1",
              expires_at |-> DefaultLifetime + 1])

\* a Python float with a binary fraction, as time.time() returns it and as
\* expires_at holds it: s whole seconds and q quarters of a second
Float(s, q) == [s |-> s, q |-> q]

\* x > y on floats
FloatGreater(x, y) == x.s > y.s \/ (x.s = y.s /\ x.q > y.q)

\* the number of characters of repr(x), which json.dump writes for a float:
\* the digits of the whole part, the point, and 0, 25, 5 or 75
FloatWidth(x) == Len(ToString(x.s)) + 1 + (IF x.q \in {0, 2} THEN 1 ELSE 2)

\* callers of the token manager that can run at the same time
Callers == {1, 2}

\* a get_access_token call: where it stands, the last value it got from
\* time.time(), whether it found the token expired, the endpoint's answer,
\* its local token_data, the text handed to the file object, and the value
\* returned
NoCall ==
    [pc |-> "idle", read |-> Float(0, 0), expired |-> FALSE,
     resp |-> Rejected, token_data |-> EmptyDict, buf |-> EmptyDict,
     ret |-> None]

NoCalls == [c \in Callers |-> NoCall]

NoLast ==
    [op |-> "none", ok |-> FALSE, raised |-> FALSE, ret |-> None,
     status |-> 0, posts |-> 0,
     params |-> EmptyDict, tokens0 |-> EmptyDict, file0 |-> MissingFile,
     resp |-> Rejected, req |-> NoRequest]

\* the record of a call: its name and the state it started from
Called(name) ==
    [NoLast EXCEPT !.op = name, !.tokens0 = tokens, !.file0 = token_cache_file]

\* the answers the token endpoint can give to a call that posts a request
\* (posts: the requests the call makes); a call that posts none gets none
Answers(posts) == IF posts = 0 THEN {Rejected} ELSE Responses

InitNoOAuth ==
    /\ tokens = EmptyDict
    /\ token_cache_file = MissingFile
    /\ writable = CanWrite
    /\ now = 1
    /\ state = None
    /\ last = NoLast
    /\ call = NoCalls

\* concurrent tool invocations against a healthy backend
Init ==
    /\ cfg \in {[BaseCfg EXCEPT !.warehouse = w] : w \in {None, "W"}}
    /\ backend = HealthyBackend
    /\ InitThreads
    /\ InitNoOAuth

\* one thread, every configuration and backend
InitSeq ==
    /\ cfg \in Configs
    /\ backend \in Backends
    /\ InitThreads
    /\ InitNoOAuth

\* one thread, commands that change the session's role and warehouse
InitKey ==
    /\ cfg \in {[BaseCfg EXCEPT !.role = r, !.warehouse = w] :
                  r \in Roles, w \in WhOpt}
               \cup {[BaseCfg EXCEPT !.warehouse = w, !.auth_method = m] :
                       w \in {None, "W"}, m \in AuthMethods}
    /\ backend = HealthyBackend
    /\ InitThreads
    /\ token_cache_file = IF cfg.auth_method = "oauth"
                            THEN UnexpiredFile ELSE MissingFile
    /\ tokens = load_cached_tokens(token_cache_file).tokens
    /\ writable = CanWrite
    /\ now = 1
    /\ state = None
    /\ last = NoLast
    /\ call = NoCalls

\* the record of a construction: whether __init__ raised
Constructed(f) ==
    [NoLast EXCEPT !.op = "init", !.file0 = f,
                   !.raised = load_cached_tokens(f).raised]

\* a token manager exists: the last construction did not raise
Manager == ~(last.op = "init" /\ last.raised)

\* OAuthTokenManager.__init__: self.tokens = self._load_cached_tokens(); when
\* that raises there is no manager and no token set
InitOAuth ==
    /\ cfg = BaseCfg
    /\ backend = HealthyBackend
    /\ InitThreads
    /\ token_cache_file \in InitFiles
    /\ tokens = load_cached_tokens(token_cache_file).tokens
    /\ writable \in DiskStates
    /\ now = 1
    /\ state = None
    /\ last = IF load_cached_tokens(token_cache_file).raised
              THEN Constructed(token_cache_file) ELSE NoLast
    /\ call = NoCalls

\* the process is started again: a new manager on the same cache file, no
\* callback server
Construct ==
    /\ tokens' = load_cached_tokens(token_cache_file).tokens
    /\ state' = None
    /\ last' = [Constructed(token_cache_file) EXCEPT !.tokens0 = tokens]
    /\ UNCHANGED <<poolVars, call, token_cache_file, writable, now>>

\* start_oauth_flow and setup_oauth_callback_server: get_authorization_url
\* draws the state, the handler is set up with it
StartOAuthFlow ==
    /\ Manager
    /\ state = None
    /\ \E s \in StateValues : state' = s
    /\ last' = Called("get_authorization_url")
    /\ UNCHANGED <<poolVars, call, tokens, token_cache_file, writable, now>>

\* the callback server answers a GET request
Callback ==
    /\ Manager
    /\ state # None
    /\ \E req \in Requests :
       \E resp \in Answers(do_GET(req, state, tokens, token_cache_file,
                                  writable, now, Rejected).posts) :
        LET r == do_GET(req, state, tokens, token_cache_file, writable, now, resp)
        IN  /\ tokens' = r.tokens
            /\ token_cache_file' = r.file
            /\ last' = [Called("do_GET") EXCEPT !.status = r.status,
                          !.ret = r.msg, !.posts = r.posts, !.req = req,
                          !.resp = resp]
    /\ UNCHANGED <<poolVars, call, writable, now, state>>

\* exchange_code_for_token called with an authorization code
CallExchangeCodeForToken ==
    /\ Manager
    /\ \E resp \in Responses :
        LET r == exchange_code_for_token(tokens, token_cache_file, writable,
                                         now, resp)
        IN  /\ tokens' = r.tokens
            /\ token_cache_file' = r.file
            /\ last' = [Called("exchange_code_for_token") EXCEPT !.ok = r.ok,
                          !.posts = r.posts, !.resp = resp]
    /\ UNCHANGED <<poolVars, call, writable, now, state>>

CallRefreshToken ==
    /\ Manager
    /\ \E resp \in Answers(refresh_token(tokens, token_cache_file, writable,
                                          now, Rejected).posts) :
        LET r == refresh_token(tokens, token_cache_file, writable, now, resp)
        IN  /\ tokens' = r.tokens
            /\ token_cache_file' = r.file
            /\ last' = [Called("refresh_token") EXCEPT !.ok = r.ok,
                          !.posts = r.posts, !.resp = resp]
    /\ UNCHANGED <<poolVars, call, writable, now, state>>

CallGetAccessToken ==
    /\ Manager
    /\ \E resp \in Answers(get_access_token(tokens, token_cache_file, writable,
                                             now, Rejected).posts) :
        LET r == get_access_token(tokens, token_cache_file, writable, now, resp)
        IN  /\ tokens' = r.tokens
            /\ token_cache_file' = r.file
            /\ last' = [Called("get_access_token") EXCEPT !.ret = r.ret,
                          !.posts = r.posts, !.resp = resp]
    /\ UNCHANGED <<poolVars, call, writable, now, state>>

CallHasValidTokens ==
    /\ Manager
    /\ last' = [Called("has_valid_tokens") EXCEPT
                  !.ok = has_valid_tokens(tokens, now)]
    /\ UNCHANGED <<poolVars, call, tokens, token_cache_file, writable, now, state>>

CallGetTokenInfo ==
    /\ Manager
    /\ last' = [Called("get_token_info") EXCEPT
                  !.params = get_token_info(tokens, now)]
    /\ UNCHANGED <<poolVars, call, tokens, token_cache_file, writable, now, state>>

CallGetConnectionParameters ==
    /\ Manager
    /\ \E resp \in Answers(get_connection_parameters(tokens, token_cache_file,
                                     writable, now, Rejected).posts) :
        LET r == get_connection_parameters(tokens, token_cache_file, writable,
                                           now, resp)
        IN  /\ tokens' = r.tokens
            /\ token_cache_file' = r.file
            /\ last' = [Called("get_connection_parameters") EXCEPT
                          !.params = r.params, !.posts = r.posts,
                          !.resp = resp]
    /\ UNCHANGED <<poolVars, call, writable, now, state>>

CallClearTokens ==
    /\ Manager
    /\ \E removeOk \in BOOLEAN :
        LET r == clear_tokens(token_cache_file, removeOk)
        IN  /\ tokens' = r.tokens
            /\ token_cache_file' = r.file
    /\ last' = Called("clear_tokens")
    /\ UNCHANGED <<poolVars, call, writable, now, state>>

\* time passes between two calls
Tick ==
    /\ Manager
    /\ \E d \in Steps : now + d <= MaxTime /\ now' = now + d
    /\ last' = NoLast
    /\ UNCHANGED <<poolVars, call, tokens, token_cache_file, writable, state>>

-----------------------------------------------------------------------------
(* Specifications *)

Release(t) ==
    \/ ReleaseQuery(t)
    \/ ReleaseCheckKey(t)
    \/ ReleaseInitKey(t)
    \/ ReleaseCheckLen(t)
    \/ ReleaseAppend(t)

\* concurrent tool invocations
Next ==
    \E t \in ConcurrentThreads :
        \/ Invoke(t, {"catalog"}, {SelectOne})
        \/ AcquirePop(t)
        \/ AcquireCreate(t, MaxConns)
        \/ Execute(t, FALSE)
        \/ Release(t)
        \/ Return(t)

Spec == Init /\ [][Next]_vars

\* one tool invocation after the other, commands that leave the session alone
NextSeq ==
    \/ Invoke(1, ToolKinds, {SelectOne})
    \/ AcquirePop(1)
    \/ AcquireCreate(1, MaxSeqConns)
    \/ Execute(1, FALSE)
    \/ Release(1)
    \/ Return(1)

SpecSeq == InitSeq /\ [][NextSeq]_vars

\* one tool invocation after the other, queries that switch role and warehouse
NextKey ==
    \/ Invoke(1, {"execute_query"}, {SelectOne})
    \/ AcquirePop(1)
    \/ AcquireCreate(1, MaxSeqConns)
    \/ Execute(1, TRUE)
    \/ Release(1)
    \/ Return(1)

SpecKey == InitKey /\ [][NextKey]_vars

\* no other thread is inside get_snowflake_connection or
\* return_connection_to_pool
Quiet(t) == \A u \in Threads \ {t} : pc[u] \in {"idle", "have", "done"}

\* MAX_POOL_SIZE + 1 tool invocations, each holding a connection of its own
\* at the same time; then they finish and release one after the other
NextCap ==
    \E t \in Threads :
        \/ /\ Quiet(t)
           /\ \A u \in 1..(t - 1) : pc[u] # "idle"
           /\ Invoke(t, {"catalog"}, {SelectOne})
        \/ AcquireCreate(t, MAX_POOL_SIZE + 1)
        \/ /\ \A u \in Threads : pc[u] \in {"have", "done"}
           /\ \A u \in 1..(t - 1) : pc[u] = "done"
           /\ Execute(t, FALSE)
        \/ Release(t)

SpecCap == Init /\ [][NextCap]_vars

\* Two get_access_token calls running at the same time, one step per
\* statement that reads or writes self.tokens or the cache file.

\* the token set both callers find: expired, with a refresh token, cached;
\* its expires_at is the float 1.0
ExpiredTokens ==
    [access_token |-> "a0", token_type |-> "Bearer", refresh_token |-> "r1",
     expires_at |-> Float(1, 0)]

InitRace ==
    /\ cfg = BaseCfg
    /\ backend = HealthyBackend
    /\ InitThreads
    /\ tokens = ExpiredTokens
    /\ token_cache_file = JsonDump(ExpiredTokens)
    /\ writable = CanWrite
    /\ now = 2
    /\ state = None
    /\ last = NoLast
    /\ call = NoCalls

\* the values time.time() can return now: a float in the current second,
\* not before a value a caller has got already
Readings ==
    {x \in {Float(now, q) : q \in 0 .. 3} :
        \A d \in Callers : ~FloatGreater(call[d].read, x)}

\* time.time() > self.tokens.get('expires_at', 0), time.time() having
\* returned the float x
ExpiredAt(tk, x) == FloatGreater(x, Get(tk, "expires_at", Float(0, 0)))

\* token_data['expires_at'] = time.time() + token_data.get('expires_in', 3600),
\* time.time() having returned the float x: the sum is a float
WithExpiryAt(body, x) ==
    DictSet(body, "expires_at",
            Float(x.s + Get(body, "expires_in", DefaultLifetime), x.q))

\* the call returns v
GaDone(c, v) == call' = [call EXCEPT ![c].pc = "done", ![c].ret = v]

\* if not self.tokens or 'access_token' not in self.tokens: return None
GaCheck(c) ==
    /\ call[c].pc = "idle"
    /\ IF NoAccessToken(tokens) THEN GaDone(c, None)
       ELSE call' = [call EXCEPT ![c].pc = "ga_expiry"]
    /\ UNCHANGED <<poolVars, tokens, token_cache_file, writable, now, state, last>>

\* if time.time() > self.tokens.get('expires_at', 0): refresh_token()
GaExpiry(c) ==
    /\ call[c].pc = "ga_expiry"
    /\ \E x \in Readings :
          call' = [call EXCEPT ![c].pc = IF ExpiredAt(tokens, x) THEN "rf_check"
                                        ELSE "ga_return",
                              ![c].read = x,
                              ![c].expired = ExpiredAt(tokens, x)]
    /\ UNCHANGED <<poolVars, tokens, token_cache_file, writable, now, state, last>>

\* refresh_token: if 'refresh_token' not in self.tokens: return False
\* (get_access_token then returns None); otherwise the request data is built
RfCheck(c) ==
    /\ call[c].pc = "rf_check"
    /\ IF ~Has(tokens, "refresh_token") THEN GaDone(c, None)
       ELSE call' = [call EXCEPT ![c].pc = "rf_post"]
    /\ UNCHANGED <<poolVars, tokens, token_cache_file, writable, now, state, last>>

\* requests.post, raise_for_status, response.json(), expires_at; a rejected
\* request makes refresh_token return False and get_access_token None
RfPost(c) ==
    /\ call[c].pc = "rf_post"
    /\ \E resp \in Responses :
        IF ~resp.ok THEN GaDone(c, None)
        ELSE \E x \in Readings :
               call' = [call EXCEPT ![c].pc = "rf_keep", ![c].resp = resp,
                          ![c].read = x,
                          ![c].token_data = WithExpiryAt(resp.body, x)]
    /\ UNCHANGED <<poolVars, tokens, token_cache_file, writable, now, state, last>>

\* the refresh token of self.tokens kept when the response has none
RfKeep(c) ==
    /\ call[c].pc = "rf_keep"
    /\ call' = [call EXCEPT ![c].pc = "rf_assign",
                  ![c].token_data = KeepRefreshToken(call[c].token_data, tokens)]
    /\ UNCHANGED <<poolVars, tokens, token_cache_file, writable, now, state, last>>

\* self.tokens = token_data
RfAssign(c) ==
    /\ call[c].pc = "rf_assign"
    /\ tokens' = call[c].token_data
    /\ call' = [call EXCEPT ![c].pc = "sv_open"]
    /\ UNCHANGED <<poolVars, token_cache_file, writable, now, state, last>>

\* _save_tokens: makedirs and open(..., 'w'), which empties the file (an
\* empty file does not decode as JSON); an IOError ends _save_tokens
SvOpen(c) ==
    /\ call[c].pc = "sv_open"
    /\ IF writable # OpenFails
       THEN /\ token_cache_file' = CorruptFile
            /\ call' = [call EXCEPT ![c].pc = "sv_dump"]
       ELSE /\ token_cache_file' = token_cache_file
            /\ call' = [call EXCEPT ![c].pc = "ga_return"]
    /\ UNCHANGED <<poolVars, tokens, writable, now, state, last>>

\* json.dump(self.tokens, f): the text of the token set as it is now goes
\* to the file object's buffer
SvDump(c) ==
    /\ call[c].pc = "sv_dump"
    /\ call' = [call EXCEPT ![c].pc = "sv_close", ![c].buf = tokens]
    /\ UNCHANGED <<poolVars, tokens, token_cache_file, writable, now, state, last>>

\* the number of characters json.dump writes for a key, a string value or
\* an int value: a string in double quotes, an int as its digits
ValueWidth(v) == Len(ToString(v))

\* the characters of the entries "key": value of the keys ks; expires_at
\* is the one float of a token set
RECURSIVE EntriesWidth(_, _)
EntriesWidth(d, ks) ==
    IF ks = {} THEN 0
    ELSE LET k == CHOOSE j \in ks : TRUE
         IN  ValueWidth(k) + 2
               + (IF k = "expires_at" THEN FloatWidth(d[k])
                  ELSE ValueWidth(d[k]))
               + EntriesWidth(d, ks \ {k})

\* the length of the text json.dump writes for a token set: the braces, the
\* entries, and ", " between two entries
TextSize(d) ==
    IF DOMAIN d = {} THEN 2
    ELSE 2 + EntriesWidth(d, DOMAIN d) + 2 * (Cardinality(DOMAIN d) - 1)

\* a buffer written from offset 0 into a file: laid over the text another
\* writer has put there since this writer opened the file. A longer text
\* keeps its tail after the new text, which no longer decodes as JSON
WriteOver(f, d) ==
    IF f.kind = "json" /\ TextSize(f.data) > TextSize(d) THEN CorruptFile
    ELSE JsonDump(d)

\* the with block ends: the file object is closed and its buffer written
SvClose(c) ==
    /\ call[c].pc = "sv_close"
    /\ IF writable = WriteFails
       THEN token_cache_file' \in {token_cache_file, CorruptFile}
       ELSE token_cache_file' = WriteOver(token_cache_file, call[c].buf)
    /\ call' = [call EXCEPT ![c].pc = "ga_return"]
    /\ UNCHANGED <<poolVars, tokens, writable, now, state, last>>

\* return self.tokens.get('access_token')
GaReturn(c) ==
    /\ call[c].pc = "ga_return"
    /\ GaDone(c, Get(tokens, "access_token", None))
    /\ UNCHANGED <<poolVars, tokens, token_cache_file, writable, now, state, last>>

\* the next second begins while the calls run
RaceTick ==
    /\ now = 2
    /\ now' = now + 1
    /\ UNCHANGED <<poolVars, call, tokens, token_cache_file, writable, state, last>>

NextRace ==
    \/ RaceTick
    \/ \E c \in Callers :
        \/ GaCheck(c)
        \/ GaExpiry(c)
        \/ RfCheck(c)
        \/ RfPost(c)
        \/ RfKeep(c)
        \/ RfAssign(c)
        \/ SvOpen(c)
        \/ SvDump(c)
        \/ SvClose(c)
        \/ GaReturn(c)

SpecRace == InitRace /\ [][NextRace]_vars

\* the token manager: calls on it one after the other, time passing between
NextOAuth ==
    \/ Construct
    \/ CallExchangeCodeForToken
    \/ CallRefreshToken
    \/ CallGetAccessToken
    \/ CallHasValidTokens
    \/ CallGetTokenInfo
    \/ CallGetConnectionParameters
    \/ CallClearTokens
    \/ Tick

SpecOAuth == InitOAuth /\ [][NextOAuth]_vars

\* the authorization flow: the callback server answering GET requests
NextCallback ==
    \/ Construct
    \/ StartOAuthFlow
    \/ Callback
    \/ Tick

SpecCallback == InitOAuth /\ [][NextCallback]_vars

-----------------------------------------------------------------------------
(* Properties *)

\* thread t has a connection checked out: from the return of
\* get_snowflake_connection until return_connection_to_pool has pooled or
\* closed it
Held(t) ==
    pc[t] \in {"have", "rel_query", "rel_check_key", "rel_init_key",
               "rel_check_len", "rel_append"}

\* the (key, position) slots of the pool
Slots(pool) ==
    UNION {{<<k, i>> : i \in 1..Len(pool[k])} : k \in DOMAIN pool}

\* C1: under every interleaving of concurrent acquires and releases, no
\* handle is idle in connection_pool while a caller has it checked out, no
\* handle occupies two slots of the pool (of one key or of two), and no
\* handle is checked out by two callers.
C1_ExclusiveOwnership ==
    /\ \A t \in Threads : Held(t) => conn[t] \notin IdleHandles(connection_pool)
    /\ \A s1, s2 \in Slots(connection_pool) :
          connection_pool[s1[1]][s1[2]] = connection_pool[s2[1]][s2[2]] => s1 = s2
    /\ \A t1, t2 \in Threads :
          Held(t1) /\ Held(t2) /\ t1 # t2 => conn[t1] # conn[t2]

\* two acquires saw the same single idle connection; thread 1 popped it and
\* holds it, thread 2 is about to pop from the emptied list
C1_Witness ==
    /\ pc[1] = "have" /\ acq[1].res = "reused"
    /\ pc[2] = "acq_pop"
    /\ Len(connection_pool[AcquireKey(cfg)]) = 0

\* C2: the idle collection of every pool key holds at most MAX_POOL_SIZE
\* connections, also when the capacity checks and appends of concurrent
\* releases interleave.
C2_PoolBounded ==
    \A k \in DOMAIN connection_pool : Len(connection_pool[k]) <= MAX_POOL_SIZE

\* C3: in sequential use (acquire, release, acquire with nothing else going
\* on and the probe succeeding) the second acquire returns the connection
\* the first one released and establishes none: release stores the
\* connection under the key the next acquire looks up, so an acquire whose
\* probe did not fail creates a connection only when none is idle.
C3_ReuseAfterRelease ==
    /\ pc[1] = "rel_check_key" => key[1] = AcquireKey(cfg)
    /\ pc[1] = "have" /\ acq[1].res = "created" /\ acq[1].probe # "fail"
          => IdleHandles(connection_pool) = {}

\* C4: a popped connection whose probe fails is out of the pool, has had
\* close() called on it, is not the connection this acquire returns nor one
\* any acquire holds later, and the acquire goes on to create a connection:
\* with a backend that accepts the connect and the role it returns a newly
\* established one, otherwise it raises the error of the creation.
C4_DeadConnectionReplaced ==
    /\ \A t \in Threads :
          acq[t].probe = "fail" =>
            /\ conns[acq[t].dead].closed
            /\ acq[t].dead \notin IdleHandles(connection_pool)
            /\ conn[t] # acq[t].dead
            /\ pc[t] # "acq_create" =>
                 /\ acq[t].res # "reused"
                 /\ backend.connect = "ok" /\ backend.roleOk =>
                      acq[t].res = "created" /\ conn[t] > acq[t].dead
    /\ \A t \in Threads : Held(t) => ~conns[conn[t]].closed
    /\ \A c \in IdleHandles(connection_pool) : ~conns[c].closed

\* the probe of the pooled connection failed and the acquire returned a new
\* connection
C4_Witness ==
    /\ pc[1] = "have" /\ acq[1].probe = "fail" /\ acq[1].res = "created"
    /\ conns[acq[1].dead].closed

\* C5: when USE ROLE fails on the newly established connection, acquire
\* raises PermissionError, hands no connection to the caller (so release is
\* never called), issues no command after USE ROLE and leaves the new
\* connection out of the pool.
C5_RoleFailureFatal ==
    \A t \in Threads :
        backend.connect = "ok" /\ ~backend.roleOk /\ acq[t].log # <<>> =>
            /\ acq[t].res = "PermissionError"
            /\ acq[t].log = <<"USE ROLE " \o cfg.role>>
            /\ pc[t] = "done" /\ conn[t] = 0
            /\ tool[t].releases = 0
            /\ Len(conns) \notin IdleHandles(connection_pool)

\* USE ROLE failed for a principal with a warehouse, database and schema
\* configured
C5_Witness ==
    /\ acq[1].res = "PermissionError" /\ acq[1].log # <<>>
    /\ cfg.warehouse # None /\ cfg.database # None /\ cfg.schema # None

\* C6: once connect and USE ROLE have succeeded, acquire returns the
\* connection whatever the warehouse selection did: the configured
\* warehouse refused, SHOW WAREHOUSES failing or empty, every alternative
\* refused.
C6_WarehouseNeverFatal ==
    \A t \in Threads :
        backend.connect = "ok" /\ backend.roleOk /\ acq[t].log # <<>> =>
            /\ acq[t].res = "created"
            /\ conn[t] # 0
            /\ conns[conn[t]].wh \in {None} \cup backend.usable

\* the configured warehouse was refused and no alternative was usable: the
\* connection is returned with no active warehouse
C6_Witness ==
    /\ pc[1] = "have" /\ acq[1].res = "created"
    /\ cfg.warehouse # None /\ cfg.warehouse \notin backend.usable
    /\ backend.showOk /\ Len(backend.rows) = 2
    /\ conns[conn[1]].wh = None

\* C7: return_connection_to_pool never raises to its caller: when the
\* identity query fails, or the pool is full and the close raises, the error
\* is absorbed, close() has been called on the connection, and the
\* connection is not in the pool.
C7_ReleaseNeverRaises ==
    \A t \in Threads :
        /\ rel[t].res # "raised"
        /\ ~rel[t].queryOk => rel[t].res = "closed_error"
        /\ rel[t].res \in {"closed_error", "closed_full"} =>
              /\ conns[conn[t]].closed
              /\ conn[t] \notin IdleHandles(connection_pool)
              /\ pc[t] = "done" /\ tool[t].releases = 1

\* a release found its key's collection full and closed the connection
C7_Witness ==
    \E t \in Threads :
        /\ rel[t].res = "closed_full" /\ conns[conn[t]].closed
        /\ \E k \in DOMAIN connection_pool :
              Len(connection_pool[k]) >= MAX_POOL_SIZE

\* C8: a tool invocation whose acquire returned a connection calls release
\* exactly once, whether the backend command succeeded or raised; one whose
\* acquire raised does not call release.
C8_ReleaseExactlyOnce ==
    \A t \in Threads :
        /\ tool[t].releases <= 1
        /\ pc[t] = "done" =>
              tool[t].releases = IF acq[t].res \in {"created", "reused"}
                                 THEN 1 ELSE 0

\* the command of an execute_query raised and the connection was released
C8_Witness ==
    /\ pc[1] = "done" /\ tool[1].kind = "execute_query"
    /\ tool[1].res = "raised" /\ acq[1].res = "reused"
    /\ tool[1].releases = 1 /\ rel[1].res = "pooled"

\* the text of the key of a live identity: the four components joined by
\* "_", an absent warehouse written None
IdentityText(c) ==
    cfg.account \o "_" \o cfg.user \o "_" \o conns[c].role \o "_"
        \o (IF conns[c].wh = None THEN "None" ELSE conns[c].wh)

\* C9: release stores a connection under the key of its live identity at
\* release time, not under the key it was acquired with: every idle
\* connection lies in the collection of its own identity and in no other.
C9_StoredUnderLiveIdentity ==
    \A s \in Slots(connection_pool) :
        s[1] = IdentityText(connection_pool[s[1]][s[2]])

\* an idle connection whose role and warehouse both differ from the
\* configured ones
C9_Witness ==
    \E s \in Slots(connection_pool) :
        LET c == connection_pool[s[1]][s[2]]
        IN  conns[c].role # cfg.role /\ conns[c].wh # cfg.warehouse
              /\ cfg.warehouse # None

\* C10: acquire hands out a pooled connection only if its live identity
\* equals the configured account, user, role and warehouse in every
\* component (the account and user of a session are those it connected
\* with).
C10_ReusedIdentityMatches ==
    \A t \in Threads :
        pc[t] = "have" /\ acq[t].res = "reused" =>
            /\ conns[conn[t]].role = cfg.role
            /\ conns[conn[t]].wh = cfg.warehouse

\* C11: two callers that acquire at the same time for a key with nothing
\* idle each hold a connection of their own, created by their own acquire,
\* and no release's push is lost: a connection a release has appended to its
\* key's collection stays idle in the pool until an acquire pops it (and
\* then holds it or has closed it), also when two releases both find the key
\* without a collection and both create it.
C11_NoLostPush ==
    /\ \A t1, t2 \in Threads :
          t1 # t2 /\ pc[t1] = "have" /\ pc[t2] = "have"
             /\ acq[t1].res = "created" /\ acq[t2].res = "created"
          => conn[t1] # conn[t2]
    /\ \A t \in Threads :
          pc[t] = "done" /\ rel[t].res = "pooled" =>
             \/ conn[t] \in IdleHandles(connection_pool)
             \/ conns[conn[t]].closed
             \/ \E u \in Threads \ {t} : Held(u) /\ conn[u] = conn[t]

\* C12: when account, user, password or role is absent from the environment,
\* acquire raises ValueError before it reads or changes the pool and before
\* it establishes a connection: the invocation ends with no connection, no
\* pool lookup and no release, and the pool and the set of established
\* connections are as they were.
C12_MissingConfigFailsFirst ==
    None \in {cfg.account, cfg.user, cfg.password, cfg.role} =>
        /\ connection_pool = [k \in {} |-> <<>>]
        /\ conns = <<>>
        /\ \A t \in Threads :
              /\ pc[t] \in {"idle", "done"}
              /\ pc[t] = "done" =>
                    /\ acq[t].res = "ValueError"
                    /\ acq[t].probe = "none" /\ acq[t].log = <<>>
                    /\ conn[t] = 0 /\ tool[t].releases = 0

\* acquire raised ValueError with only the password missing, against a
\* backend that would have accepted the connection
C12_Witness ==
    /\ pc[1] = "done" /\ acq[1].res = "ValueError"
    /\ cfg.account # None /\ cfg.user # None /\ cfg.role # None
    /\ cfg.password = None
    /\ backend.connect = "ok" /\ backend.roleOk

\* the instant t is past the expiry stored in the token set tk (a set with
\* no expiry stored counts as past it)
PastExpiry(tk, t) ==
    IF "expires_at" \in DOMAIN tk THEN t > tk["expires_at"] ELSE TRUE

\* the token set tk holds an access token whose expiry has passed
ExpiredSet(tk, t) == "access_token" \in DOMAIN tk /\ PastExpiry(tk, t)

\* C13: get_access_token on a token set whose expiry has passed and which
\* holds a refresh token posts exactly one refresh request; when the
\* endpoint answers with tokens it returns the access token of that answer,
\* which is then the stored one and not past its expiry; when the endpoint
\* rejects the refresh it returns None.
C13_ExpiredTokenRefreshedOnce ==
    last.op = "get_access_token" /\ ExpiredSet(last.tokens0, now)
        /\ "refresh_token" \in DOMAIN last.tokens0 =>
            /\ last.posts = 1
            /\ last.resp.ok =>
                  /\ last.ret = last.resp.body["access_token"]
                  /\ tokens["access_token"] = last.ret
                  /\ ~PastExpiry(tokens, now)
            /\ ~last.resp.ok => last.ret = None

\* get_access_token refreshed an expired token set and returned an access
\* token other than the expired one
C13_Witness ==
    /\ last.op = "get_access_token" /\ ExpiredSet(last.tokens0, now)
    /\ "expires_at" \in DOMAIN last.tokens0
    /\ last.posts = 1 /\ last.resp.ok
    /\ last.ret # None /\ last.ret # last.tokens0["access_token"]

\* C14: refresh_token returns False without a request to the token endpoint
\* when no refresh token is stored, and returns False when the endpoint
\* rejects the refresh; in both cases the token set in memory and the cache
\* file are as they were before the call.
C14_FailedRefreshChangesNothing ==
    last.op = "refresh_token" =>
        /\ "refresh_token" \notin DOMAIN last.tokens0 =>
              ~last.ok /\ last.posts = 0
        /\ last.posts = 1 /\ ~last.resp.ok => ~last.ok
        /\ ~last.ok => tokens = last.tokens0 /\ token_cache_file = last.file0

\* the endpoint rejected the refresh of a token set that was obtained by an
\* exchange and is held in the cache file
C14_Witness ==
    /\ last.op = "refresh_token" /\ ~last.ok /\ last.posts = 1
    /\ "refresh_token" \in DOMAIN tokens /\ "expires_at" \in DOMAIN tokens
    /\ token_cache_file = JsonDump(tokens)

\* C15: after a successful refresh_token the stored token set holds the
\* access token of the response and the expiry now + its lifetime (3600
\* when it reports none), with the refresh token of the response when it
\* carries one and otherwise the refresh token stored before the call: a
\* successful refresh never leaves the token set without a refresh token.
C15_RefreshTokenRetained ==
    last.op = "refresh_token" /\ last.ok =>
        /\ tokens["access_token"] = last.resp.body["access_token"]
        /\ tokens["expires_at"] =
              now + (IF "expires_in" \in DOMAIN last.resp.body
                     THEN last.resp.body["expires_in"] ELSE DefaultLifetime)
        /\ "refresh_token" \in DOMAIN tokens
        /\ tokens["refresh_token"] =
              IF "refresh_token" \in DOMAIN last.resp.body
              THEN last.resp.body["refresh_token"]
              ELSE last.tokens0["refresh_token"]

\* a refresh whose response carried no refresh token succeeded, on a token
\* set that an earlier refresh had already replaced
C15_Witness ==
    /\ last.op = "refresh_token" /\ last.ok
    /\ "refresh_token" \notin DOMAIN last.resp.body
    /\ "expires_at" \in DOMAIN last.tokens0
    /\ tokens["refresh_token"] = "r1"
    /\ tokens["access_token"] # last.tokens0["access_token"]

\* C16: after a successful exchange_code_for_token a manager newly
\* constructed on the same cache file holds the token set the first manager
\* holds in memory: the response's access token, refresh token and token
\* type, and the expiry now + its lifetime (3600 when it reports none).
C16_ExchangeSurvivesRestart ==
    last.op = "exchange_code_for_token" /\ last.ok =>
        /\ \A k \in DOMAIN last.resp.body : tokens[k] = last.resp.body[k]
        /\ tokens["expires_at"] =
              now + (IF "expires_in" \in DOMAIN last.resp.body
                     THEN last.resp.body["expires_in"] ELSE DefaultLifetime)
        /\ load_cached_tokens(token_cache_file)
            = [tokens |-> tokens, raised |-> FALSE]

\* C17: the callback handler calls exchange_code_for_token only for a
\* request to /oauth/callback whose state parameter is present and equal
\* to the state the handler was set up with; a request to /oauth/callback
\* with the state missing or different is answered 400, posts nothing to
\* the token endpoint and leaves the token set and the cache file as they
\* were.
C17_StateCheckedBeforeExchange ==
    last.op = "do_GET" =>
        /\ last.posts > 0 =>
              /\ last.req.path = "/oauth/callback"
              /\ last.req.state # None /\ last.req.state = state
        /\ last.req.path = "/oauth/callback"
              /\ (last.req.state = None \/ last.req.state # state) =>
              /\ last.status = 400 /\ last.posts = 0
              /\ tokens = last.tokens0 /\ token_cache_file = last.file0

\* C18: get_access_token and get_connection_parameters attempt a refresh
\* whenever the stored access token is past its expiry and a refresh token
\* is stored, and the access token they hand out is never past its expiry.
C18_NoExpiredTokenHandedOut ==
    /\ last.op \in {"get_access_token", "get_connection_parameters"}
          /\ ExpiredSet(last.tokens0, now)
          /\ "refresh_token" \in DOMAIN last.tokens0
       => last.posts = 1
    /\ last.op = "get_access_token" /\ last.ret # None
       => ~PastExpiry(tokens, now)
    /\ last.op = "get_connection_parameters" /\ last.params # EmptyDict
       => ~PastExpiry(tokens, now)

\* C19: has_valid_tokens returns True exactly when an access token is
\* stored and the time is not past the stored expiry, or is past it and a
\* refresh token is stored (a set with no expiry stored counts as past it);
\* it posts no request and leaves the token set and the cache file as they
\* were.
C19_HasValidTokensExact ==
    last.op = "has_valid_tokens" =>
        /\ last.ok <=>
              /\ "access_token" \in DOMAIN last.tokens0
              /\ \/ ~PastExpiry(last.tokens0, now)
                 \/ "refresh_token" \in DOMAIN last.tokens0
        /\ last.posts = 0
        /\ tokens = last.tokens0 /\ token_cache_file = last.file0

\* has_valid_tokens answered True for a token set past its expiry that
\* holds a refresh token, and the set is still the expired one
C19_Witness ==
    /\ last.op = "has_valid_tokens" /\ last.ok
    /\ "expires_at" \in DOMAIN tokens /\ now > tokens["expires_at"]
    /\ "refresh_token" \in DOMAIN tokens

\* C20: the manager follows the state machine NoTokens, Valid, Expired:
\* from Expired a refresh attempt that fails for want of a refresh token
\* leaves the manager in NoTokens (no access token stored, get_token_info
\* reports 'no_tokens'); from Expired a successful refresh leaves it Valid;
\* from NoTokens the manager holds tokens again only after a successful
\* exchange.
C20_TokenStateMachine ==
    /\ last.op \in {"refresh_token", "get_access_token"}
          /\ ExpiredSet(last.tokens0, now)
          /\ "refresh_token" \notin DOMAIN last.tokens0
       => /\ "access_token" \notin DOMAIN tokens
          /\ get_token_info(tokens, now).status = "no_tokens"
    /\ last.op = "refresh_token" /\ last.ok /\ ExpiredSet(last.tokens0, now)
       => /\ "access_token" \in DOMAIN tokens /\ ~PastExpiry(tokens, now)
          /\ get_token_info(tokens, now).status = "valid"
    /\ last.op \notin {"none", "init"} /\ last.tokens0 = EmptyDict
          /\ tokens # EmptyDict
       => last.op = "exchange_code_for_token" /\ last.ok

\* C21: after clear_tokens, whatever the token set was, the token set in
\* memory is empty and the cache file holds no tokens: get_access_token
\* returns None, has_valid_tokens returns False, and a manager newly
\* constructed on the same cache file starts with no tokens.
C21_ClearWipesMemoryAndFile ==
    last.op = "clear_tokens" =>
        /\ tokens = EmptyDict
        /\ get_access_token(tokens, token_cache_file, writable, now,
                            Rejected).ret = None
        /\ ~has_valid_tokens(tokens, now)
        /\ load_cached_tokens(token_cache_file)
            = [tokens |-> EmptyDict, raised |-> FALSE]

\* C24: after each completed token mutation (a successful exchange, a
\* successful refresh, clear_tokens) reloading the cache file yields the
\* token set in memory (the empty set after a clear); a call that does not
\* change the token set leaves the cache file as it was.
C24_CacheFileMirrorsTokens ==
    /\ \/ last.op \in {"exchange_code_for_token", "refresh_token"} /\ last.ok
       \/ last.op = "clear_tokens"
       => load_cached_tokens(token_cache_file)
            = [tokens |-> tokens, raised |-> FALSE]
    /\ last.op \notin {"none", "init"} /\ tokens = last.tokens0
          /\ last.op # "clear_tokens"
       => token_cache_file = last.file0

\* C25: when the token endpoint rejects the authorization code,
\* exchange_code_for_token returns False and leaves the token set in memory
\* and the cache file as they were before the call.
C25_RejectedExchangeChangesNothing ==
    last.op = "exchange_code_for_token" /\ ~last.resp.ok =>
        /\ ~last.ok
        /\ tokens = last.tokens0
        /\ token_cache_file = last.file0

\* the endpoint rejected a code while a token set obtained earlier, with
\* its refresh token, was stored and held in the cache file
C25_Witness ==
    /\ last.op = "exchange_code_for_token" /\ ~last.resp.ok /\ ~last.ok
    /\ "access_token" \in DOMAIN tokens /\ "expires_at" \in DOMAIN tokens
    /\ "refresh_token" \in DOMAIN tokens
    /\ token_cache_file = JsonDump(tokens)

\* C22: when the configured authentication method is OAuth, every call of
\* snowflake.connector.connect made by get_snowflake_connection follows a
\* call of the token manager's get_access_token and is made with the token
\* that call returns, and never with a password.
C22_OAuthConnectsWithToken ==
    \A t \in Threads :
        cfg.auth_method = "oauth" /\ acq[t].params # NoParams =>
            /\ last.op = "get_access_token"
            /\ "password" \notin DOMAIN acq[t].params
            /\ "token" \in DOMAIN acq[t].params
            /\ acq[t].params.token =
                 get_access_token(tokens, token_cache_file, writable, now,
                                  Rejected).ret

\* C23: a failed acquire raises an error whose kind tells the failure
\* classes apart: a backend error mentioning 'Insufficient privileges', or
\* a rejected USE ROLE, raises PermissionError; a backend error mentioning
\* 'Authentication failed' raises the authentication error; any other
\* connection failure leaves with its own class and message; and the kind
\* raised for an authentication failure is not the kind (ValueError) raised
\* for missing configuration.
C23_ErrorKindsDistinct ==
    \A t \in Threads :
        acq[t].params # NoParams =>
            /\ backend.connect \in
                  {"Insufficient privileges",
                   "Authentication failed: Insufficient privileges"}
               => acq[t].res = "PermissionError"
            /\ backend.connect = "ok" /\ ~backend.roleOk
               => acq[t].res = "PermissionError"
            /\ backend.connect = "Authentication failed"
               => /\ acq[t].res \notin {"PermissionError", "DatabaseError",
                                        "Exception", "InterfaceError"}
                  /\ acq[t].res # "ValueError"
            /\ backend.connect \in {"other DatabaseError", "other error"}
               => /\ acq[t].res = ErrorClass(backend.connect)
                  /\ acq[t].msg = backend.connect

\* C26: when an idle connection is popped and its probe succeeds,
\* get_snowflake_connection returns that connection having issued the probe
\* only: snowflake.connector.connect is not called and no USE ROLE, USE
\* WAREHOUSE, USE DATABASE, USE SCHEMA or ALTER SESSION is issued.
C26_FastPathProbeOnly ==
    \A t \in Threads :
        acq[t].probe = "ok" =>
            /\ acq[t].res = "reused"
            /\ acq[t].params = NoParams
            /\ acq[t].log = <<>>
            /\ conn[t] \in 1..Len(conns)
            /\ pc[t] = "have" => ~conns[conn[t]].closed

\* a connection initialised with role, warehouse, database, schema and
\* session parameters was released and is acquired again on the fast path
C26_Witness ==
    /\ pc[1] = "have" /\ acq[1].probe = "ok" /\ acq[1].res = "reused"
    /\ cfg.warehouse # None /\ cfg.database # None /\ cfg.schema # None
    /\ backend.paramFail = 0
    /\ conn[1] = 1 /\ Len(conns) = 1

\* the step of the session initialisation a command belongs to: 1 role,
\* 2 warehouse selection and fallback search, 3 database, 4 schema,
\* 5 session parameters
StepOf(cmd) ==
    CASE cmd = "USE ROLE R" -> 1
      [] cmd = "SHOW WAREHOUSES"
           \/ cmd \in {"USE WAREHOUSE " \o w : w \in ConfigWarehouses} -> 2
      [] cmd = "USE DATABASE D" -> 3
      [] cmd = "USE SCHEMA S" -> 4
      [] \E i \in 1..Len(SessionParams) : cmd = SessionParams[i] -> 5
      [] OTHER -> 0

\* C27: the commands issued on a newly created connection follow the fixed
\* order role, warehouse selection with its fallback attempts, database,
\* schema, session parameters: the first command sets the role, no command
\* of a later step precedes one of an earlier step, and the connection is
\* returned only after the database, schema and session parameter steps
\* have been attempted.
C27_InitOrderFixed ==
    \A t \in Threads :
        LET log == acq[t].log
        IN  acq[t].params # NoParams /\ backend.connect = "ok" =>
              /\ Len(log) >= 1 /\ StepOf(log[1]) = 1
              /\ \A i \in 1..Len(log) : StepOf(log[i]) # 0
              /\ \A i, j \in 1..Len(log) :
                    i < j => StepOf(log[i]) <= StepOf(log[j])
              /\ acq[t].res = "created" =>
                    /\ StepOf(log[Len(log)]) = 5
                    /\ cfg.database # None =>
                         \E i \in 1..Len(log) : StepOf(log[i]) = 3
                    /\ cfg.schema # None =>
                         \E i \in 1..Len(log) : StepOf(log[i]) = 4

\* a connection was returned after all five steps, the warehouse step with
\* a fallback search that tried two warehouses
C27_Witness ==
    /\ pc[1] = "have" /\ acq[1].res = "created"
    /\ \E i \in 1..Len(acq[1].log) : acq[1].log[i] = "SHOW WAREHOUSES"
    /\ Len(acq[1].log) = 1 + 4 + 2 + Len(SessionParams)
    /\ cfg.database # None /\ cfg.schema # None

\* C28: on a new connection whose role was set, failures of the optional
\* steps are absorbed one by one: whether or not USE DATABASE, USE SCHEMA
\* or a session parameter fails, the configured schema is still selected,
\* each of the four session parameters is still attempted, and
\* get_snowflake_connection returns the connection.
C28_OptionalFailuresIndependent ==
    \A t \in Threads :
        acq[t].params # NoParams /\ backend.connect = "ok" /\ backend.roleOk
        =>  /\ acq[t].res = "created"
            /\ cfg.schema # None =>
                 \E i \in 1..Len(acq[t].log) : acq[t].log[i] = "USE SCHEMA S"
            /\ \A k \in 1..Len(SessionParams) :
                 \E i \in 1..Len(acq[t].log) : acq[t].log[i] = SessionParams[k]

\* C29: when the configured warehouse cannot be selected, the warehouses
\* listed by SHOW WAREHOUSES (the configured one left out) are tried in the
\* order listed, up to and including the first one that can be selected and
\* none after it; that warehouse is the active warehouse of the returned
\* connection, and when none can be selected, or the listing fails, the
\* connection has no active warehouse.
C29_FallbackFirstUsable ==
    \A t \in Threads :
        /\ pc[t] = "have" /\ acq[t].res = "created"
        /\ cfg.warehouse # None /\ cfg.warehouse \notin backend.usable
        =>  LET Other(w) == w # cfg.warehouse
                others == IF backend.showOk
                          THEN SelectSeq(backend.rows, Other) ELSE <<>>
                hits == {i \in 1..Len(others) : others[i] \in backend.usable}
                n == IF hits = {} THEN Len(others)
                     ELSE CHOOSE i \in hits : \A j \in hits : i <= j
                expected ==
                    <<"USE ROLE " \o cfg.role,
                      "USE WAREHOUSE " \o cfg.warehouse, "SHOW WAREHOUSES">>
                      \o [i \in 1..n |-> "USE WAREHOUSE " \o others[i]]
                log == acq[t].log
            IN  /\ Len(log) > Len(expected)
                /\ SubSeq(log, 1, Len(expected)) = expected
                /\ StepOf(log[Len(expected) + 1]) > 2
                /\ conns[conn[t]].wh = IF hits = {} THEN None ELSE others[n]

\* the configured warehouse is unknown to the backend, two others are
\* listed and usable: the first listed is active, the second was not tried
C29_Witness ==
    /\ pc[1] = "have" /\ acq[1].res = "created"
    /\ cfg.warehouse = "WH_MISSING"
    /\ backend.showOk /\ backend.rows = <<"W2", "W">>
    /\ backend.usable = {"W", "W2"}
    /\ conns[conn[1]].wh = "W2"
    /\ \A i \in 1..Len(acq[1].log) : acq[1].log[i] # "USE WAREHOUSE W"

\* C30: releases that run one after another. A release that finds
\* MAX_POOL_SIZE idle connections under the connection's key closes the
\* connection and leaves the pool as it is; one that finds fewer appends
\* the connection and does not close it. So when MAX_POOL_SIZE + 1
\* connections of one key, all checked out at the same time, have been
\* released, MAX_POOL_SIZE of them are idle and one is closed.
C30_SequentialCapacity ==
    /\ [][\A t \in Threads :
            /\ pc[t] = "rel_check_len" /\ pc'[t] # "rel_check_len" =>
                 /\ connection_pool' = connection_pool
                 /\ IF Len(connection_pool[key[t]]) >= MAX_POOL_SIZE
                    THEN pc'[t] = "done" /\ conns'[conn[t]].closed
                    ELSE pc'[t] = "rel_append" /\ conns' = conns
            /\ pc[t] = "rel_append" /\ pc'[t] # "rel_append" =>
                 /\ connection_pool' =
                      PoolSet(connection_pool, key[t],
                              Append(connection_pool[key[t]], conn[t]))
                 /\ conns' = conns /\ ~conns[conn[t]].closed
                 /\ rel'[t].res = "pooled"]_vars
    /\ []((/\ Len(conns) = MAX_POOL_SIZE + 1
           /\ \A t \in Threads :
                /\ pc[t] = "done" /\ rel[t].queryOk /\ key[t] = key[1]
                /\ \A u \in Threads \ {t} : conn[u] # conn[t])
          => /\ Len(connection_pool[key[1]]) = MAX_POOL_SIZE
             /\ Cardinality({c \in 1..Len(conns) : conns[c].closed}) = 1
             /\ Cardinality({t \in Threads : rel[t].res = "pooled"})
                  = MAX_POOL_SIZE)

\* six connections were held at once and released in turn: the first five
\* are idle in the pool, the sixth was closed because the pool was full
C30_Witness ==
    /\ \A t \in Threads : pc[t] = "done"
    /\ cfg.warehouse = "W"
    /\ DOMAIN connection_pool = {"A_U_R_W"}
    /\ connection_pool["A_U_R_W"] = <<1, 2, 3, 4, 5>>
    /\ rel[6].res = "closed_full" /\ conns[6].closed
    /\ \A c \in 1..5 : ~conns[c].closed

\* C32: get_access_token posts nothing to the token endpoint and leaves the
\* token set in memory and the cache file as they were when no access token
\* is stored, and then returns None, and when the stored access token is not
\* past its expiry, and then returns that token.
C32_NoRefreshWhenNotNeeded ==
    last.op = "get_access_token" =>
        /\ "access_token" \notin DOMAIN last.tokens0 =>
              /\ last.ret = None /\ last.posts = 0
              /\ tokens = last.tokens0 /\ token_cache_file = last.file0
        /\ "access_token" \in DOMAIN last.tokens0
              /\ "expires_at" \in DOMAIN last.tokens0
              /\ now <= last.tokens0["expires_at"] =>
              /\ last.ret = last.tokens0["access_token"] /\ last.posts = 0
              /\ tokens = last.tokens0 /\ token_cache_file = last.file0

\* an unexpired access token was returned although a refresh token was
\* stored and a refresh possible
C32_Witness ==
    /\ last.op = "get_access_token" /\ last.posts = 0
    /\ "refresh_token" \in DOMAIN tokens /\ "expires_at" \in DOMAIN tokens
    /\ now <= tokens["expires_at"] /\ now > 1
    /\ last.ret = tokens["access_token"]

\* get_access_token returned None for a token set without an access token
C32_WitnessEmpty ==
    /\ last.op = "get_access_token" /\ last.tokens0 = EmptyDict
    /\ last.ret = None

\* C33: the callback handler answers every GET request with one response
\* and tests in the order state, error parameter, code, exchange: a request
\* with an error parameter or without a code posts nothing to the token
\* endpoint, a rejected exchange is answered with an error response, and a
\* request whose path is not /oauth/callback is answered Not Found.
C33_CallbackChecksInOrder ==
    last.op = "do_GET" =>
        /\ last.status \in {200, 400, 404, 500} /\ last.ret # None
        /\ last.req.path = "/oauth/callback" =>
              /\ (last.req.state = None \/ last.req.state # state) =>
                    last.ret = "Error: Invalid state parameter"
              /\ last.req.state = state /\ last.req.error # None =>
                    /\ last.status = 400
                    /\ last.ret \notin {"Error: Invalid state parameter",
                                        "Error: No authorization code received"}
              /\ last.req.state = state /\ last.req.error = None
                    /\ last.req.code = None =>
                    last.ret = "Error: No authorization code received"
        /\ last.req.error # None \/ last.req.code = None => last.posts = 0
        /\ last.posts = 1 /\ ~last.resp.ok =>
              last.status = 500 /\ tokens = last.tokens0
        /\ last.req.path # "/oauth/callback" =>
              last.status = 404 /\ last.posts = 0

\* C31: when two get_access_token calls running at the same time both find
\* the token set expired with a refresh token, each returns None or the
\* access token of a refresh response that was received, never the expired
\* one; and once both have returned after at least one refresh succeeded,
\* the stored token set is the completed token data of one of the calls,
\* with a refresh token, and the cache file holds that same set.
C31_ConcurrentRefreshSafe ==
    (\A c \in Callers : call[c].pc = "done" /\ call[c].expired) =>
        /\ \A c \in Callers :
              \/ call[c].ret = None
              \/ /\ call[c].ret # "a0"
                 /\ \E d \in Callers :
                       /\ call[d].resp.ok
                       /\ call[c].ret = call[d].resp.body["access_token"]
        /\ (\E d \in Callers : call[d].resp.ok) =>
              /\ \E d \in Callers :
                    call[d].resp.ok /\ tokens = call[d].token_data
              /\ "refresh_token" \in DOMAIN tokens
              /\ token_cache_file = JsonDump(tokens)

\* no thread is inside get_snowflake_connection or return_connection_to_pool
Quiescent == \A t \in Threads : pc[t] \in {"idle", "have", "done"}

\* the states of connection c that hold: checked out, idle in the pool, closed
StatesOf(c) ==
    (IF \E t \in Threads : pc[t] = "have" /\ conn[t] = c
     THEN {"checked out"} ELSE {})
      \cup (IF c \in IdleHandles(connection_pool) THEN {"idle"} ELSE {})
      \cup (IF conns[c].closed THEN {"closed"} ELSE {})

\* C34: whenever no acquire and no release is in progress, every connection
\* get_snowflake_connection has established is in exactly one of the states
\* checked out, idle in the pool, closed; so a connection whose acquire
\* failed after connecting (USE ROLE rejected) is closed.
C34_ConnectionsConserved ==
    Quiescent => \A c \in 1..Len(conns) : Cardinality(StatesOf(c)) = 1

\* C35: connection_pool never holds a connection on which the connection
\* manager has called close() (failed probe, full collection, error in
\* release), and the handle get_snowflake_connection has returned is not one
\* the manager closed.
C35_NoClosedConnectionInPool ==
    /\ \A k \in DOMAIN connection_pool :
         \A i \in 1..Len(connection_pool[k]) :
           ~conns[connection_pool[k][i]].closed
    /\ \A t \in Threads : pc[t] = "have" => ~conns[conn[t]].closed

\* a pooled connection failed its probe and was closed, the acquire went on
\* to return another connection, and a connection is still idle in the pool
C35_Witness ==
    \E t \in Threads :
      /\ pc[t] = "have"
      /\ acq[t].dead # 0
      /\ conns[acq[t].dead].closed
      /\ conn[t] # acq[t].dead
      /\ \E k \in DOMAIN connection_pool : Len(connection_pool[k]) > 0

\* the idle collection of key k (empty when the key has none)
Idle(pool, k) == IF k \in DOMAIN pool THEN pool[k] ELSE <<>>

\* every collection but that of key k is the same in the next state
OtherKeysUnchanged(k) ==
    \A j \in (DOMAIN connection_pool \cup DOMAIN connection_pool') \ {k} :
        Idle(connection_pool', j) = Idle(connection_pool, j)

\* a step of thread t inside get_snowflake_connection
AcquireStep(t) ==
    pc[t] \in {"idle", "acq_pop", "acq_create"} /\ pc'[t] # pc[t]

\* a step of thread t inside return_connection_to_pool
ReleaseStep(t) ==
    /\ pc[t] \in {"rel_query", "rel_check_key", "rel_init_key",
                  "rel_check_len", "rel_append"}
    /\ pc'[t] # pc[t]

\* the key of the identity the session of thread t's connection has
LiveKey(t) ==
    ReleaseKey(cfg.account, cfg.user, conns[conn[t]].role, conns[conn[t]].wh)

\* C36: a step of get_snowflake_connection changes only the collection of
\* the configured principal's key, by removing at most its last handle; a
\* step of return_connection_to_pool changes only the collection of the key
\* of the connection's live identity, by appending at most the released
\* handle; an acquire that popped nothing and fails to create a connection
\* leaves connection_pool as it was.
C36_OneKeyPerOperation ==
    [][\A t \in Threads :
         /\ AcquireStep(t) =>
              /\ OtherKeysUnchanged(AcquireKey(cfg))
              /\ \/ Idle(connection_pool', AcquireKey(cfg))
                      = Idle(connection_pool, AcquireKey(cfg))
                 \/ /\ Len(Idle(connection_pool, AcquireKey(cfg))) > 0
                    /\ Idle(connection_pool', AcquireKey(cfg))
                         = SubSeq(Idle(connection_pool, AcquireKey(cfg)), 1,
                                  Len(Idle(connection_pool, AcquireKey(cfg))) - 1)
         /\ ReleaseStep(t) =>
              /\ OtherKeysUnchanged(LiveKey(t))
              /\ \/ Idle(connection_pool', LiveKey(t))
                      = Idle(connection_pool, LiveKey(t))
                 \/ Idle(connection_pool', LiveKey(t))
                      = Append(Idle(connection_pool, LiveKey(t)), conn[t])
         /\ (/\ pc[t] = "acq_create"
             /\ acq[t].probe = "none"
             /\ pc'[t] = "done") => connection_pool' = connection_pool
    ]_vars

-----------------------------------------------------------------------------
(* Termination: concurrent tool invocations on a pool one short of its     *)
(* capacity, repeated until MAX_POOL_SIZE + 1 connections have been        *)
(* established.                                                            *)

\* backends with the warehouse usable, a fallback one usable, none usable,
\* the role rejected, the connection refused
LiveBackends ==
    {HealthyBackend,
     [HealthyBackend EXCEPT !.usable = {"W2"}],
     [HealthyBackend EXCEPT !.usable = {}],
     [HealthyBackend EXCEPT !.roleOk = FALSE],
     [HealthyBackend EXCEPT !.connect = "other error"]}

\* MAX_POOL_SIZE - 1 invocations have ended, each having created a
\* connection; their releases either all pooled it under the key of its
\* live identity or all failed and closed it (no connection exists when
\* the backend lets no acquire succeed)
InitLive ==
    /\ cfg \in {[BaseCfg EXCEPT !.warehouse = w] : w \in {"W", "WH_MISSING"}}
    /\ backend \in LiveBackends
    /\ \E pooled \in BOOLEAN :
       LET s == SessionInit(cfg, backend)
           n == IF backend.connect = "ok" /\ s.error = "none"
                THEN MAX_POOL_SIZE - 1 ELSE 0
       IN  /\ conns = [i \in 1..n |->
                         [NewConn(s.role, s.wh) EXCEPT !.closed = ~pooled]]
           /\ connection_pool =
                 [k \in IF n = 0 \/ ~pooled THEN {}
                        ELSE {ReleaseKey(cfg.account, cfg.user, s.role, s.wh)}
                    |-> [i \in 1..n |-> i]]
    /\ pc = [t \in Threads |-> "idle"]
    /\ conn = [t \in Threads |-> 0]
    /\ key = [t \in Threads |-> ""]
    /\ acq = [t \in Threads |-> NoAcq]
    /\ rel = [t \in Threads |-> NoRel]
    /\ tool = [t \in Threads |-> NoTool]
    /\ args = DefaultArgs
    /\ query = [t \in Threads |-> NoQuery]
    /\ InitNoOAuth

\* the threads inside get_snowflake_connection
Acquiring == {u \in Threads : pc[u] \in {"acq_pop", "acq_create"}}

\* a step of thread t that the thread takes by itself once the backend call
\* it waits for has returned or failed
ThreadStep(t) ==
    \/ AcquirePop(t)
    \/ AcquireCreate(t, MAX_POOL_SIZE + 1)
    \/ Execute(t, FALSE)
    \/ Release(t)
    \/ Return(t)

\* a tool is invoked while a connection can still be established for every
\* thread inside get_snowflake_connection
NextLive ==
    \E t \in ConcurrentThreads :
        \/ /\ Len(conns) + Cardinality(Acquiring) < MAX_POOL_SIZE + 1
           /\ Invoke(t, {"execute_query"}, {SelectOne})
        \/ ThreadStep(t)

\* every backend call returns or fails and every runnable thread is
\* scheduled; nothing obliges a client to invoke a tool
SpecLive ==
    /\ InitLive
    /\ [][NextLive]_vars
    /\ \A t \in ConcurrentThreads : WF_vars(ThreadStep(t))

\* the position of SHOW WAREHOUSES in a command log (0: not issued)
ShowIndex(log) ==
    IF \E i \in 1..Len(log) : log[i] = "SHOW WAREHOUSES"
    THEN CHOOSE i \in 1..Len(log) : log[i] = "SHOW WAREHOUSES"
    ELSE 0

\* the positions of the log at which the fallback loop tried warehouse w
FallbackAttempts(log, w) ==
    {i \in 1..Len(log) :
        /\ ShowIndex(log) > 0
        /\ i > ShowIndex(log)
        /\ log[i] = "USE WAREHOUSE " \o w}

\* the rows of SHOW WAREHOUSES that list warehouse w
Listed(rows, w) == {i \in 1..Len(rows) : rows[i] = w}

\* C37: with every backend call returning or failing, every tool invocation
\* ends (returns or raises); a connection that is checked out is idle in
\* the pool or closed when its invocation has ended, so that no thread
\* stays inside return_connection_to_pool, also when the collection is
\* full; the fallback loop issues at most one USE WAREHOUSE per row of
\* SHOW WAREHOUSES.
C37_InvocationsTerminate ==
    /\ \A t \in ConcurrentThreads :
         (pc[t] \notin {"idle", "done"}) ~>
            (/\ pc[t] = "done"
             /\ conn[t] # 0 => \/ conn[t] \in IdleHandles(connection_pool)
                               \/ conns[conn[t]].closed)
    /\ [](\A t \in Threads :
            \A w \in ConfigWarehouses \cup Warehouses :
                 Cardinality(FallbackAttempts(acq[t].log, w))
                   <= Cardinality(Listed(backend.rows, w)))

\* an invocation has ended whose release found the collection full and
\* closed the connection, and whose acquire went through the whole fallback
\* loop without finding a usable warehouse
C37_Witness ==
    \E t \in Threads :
      /\ pc[t] = "done"
      /\ rel[t].res = "closed_full"
      /\ conns[conn[t]].closed
      /\ Cardinality(UNION {FallbackAttempts(acq[t].log, w) : w \in Warehouses})
           = Len(backend.rows)
      /\ Len(backend.rows) = 2

-----------------------------------------------------------------------------
(* The write guard of execute_query: one query after the other, with and   *)
(* without --allow-write.                                                  *)

\* the lower-case letter of a capital
LowerChar(ch) ==
    LowerLetters[CHOOSE i \in 1..Len(UpperLetters) : UpperLetters[i] = ch]

\* a word in capitals, in lower case, and with every other letter lowered
Spellings(word) ==
    {word,
     [i \in 1..Len(word) |-> LowerChar(word[i])],
     [i \in 1..Len(word) |-> IF i % 2 = 1 THEN LowerChar(word[i]) ELSE word[i]]}

\* what stands before and after the word in the text
Prefixes == {<<>>, <<"x", " ">>}
Suffixes == {<<>>, <<"d">>, <<" ", "x">>}

\* texts without any of the words: a query that reads, a word cut in two,
\* words with a letter whose upper case is another letter
OtherTexts ==
    {SelectOne, <<"d", "r", "o", " ", "p">>,
     <<"dotless-i", "n", "s", "e", "r", "t">>,
     <<"c", "r", "e", "a", "sharp-s", "t", "e">>}

Queries ==
    {p \o w \o x : p \in Prefixes,
                   w \in UNION {Spellings(op) : op \in WriteOps},
                   x \in Suffixes}
      \cup OtherTexts

InitWrite ==
    /\ cfg = [BaseCfg EXCEPT !.warehouse = "W"]
    /\ backend = HealthyBackend
    /\ connection_pool = [k \in {} |-> <<>>]
    /\ conns = <<>>
    /\ pc = [t \in Threads |-> "idle"]
    /\ conn = [t \in Threads |-> 0]
    /\ key = [t \in Threads |-> ""]
    /\ acq = [t \in Threads |-> NoAcq]
    /\ rel = [t \in Threads |-> NoRel]
    /\ tool = [t \in Threads |-> NoTool]
    /\ args \in {[allow_write |-> w] : w \in BOOLEAN}
    /\ query = [t \in Threads |-> NoQuery]
    /\ InitNoOAuth

NextWrite ==
    \/ Invoke(1, {"execute_query"}, Queries)
    \/ AcquirePop(1)
    \/ AcquireCreate(1, MaxSeqConns)
    \/ Execute(1, FALSE)
    \/ Release(1)
    \/ Return(1)

SpecWrite == InitWrite /\ [][NextWrite]_vars

\* the text holds one of the six words, each letter in either case
HasWriteWord(text) ==
    \E op \in WriteOps : \E i \in 0..(Len(text) - Len(op)) :
        \A j \in 1..Len(op) : text[i + j] \in {op[j], LowerChar(op[j])}

\* C38: with allow_write false, a call of execute_query whose text holds
\* INSERT, UPDATE, DELETE, CREATE, DROP or ALTER in any mix of cases ends
\* at once by raising, without a call of get_snowflake_connection: the pool
\* and the connections are as before the call, and no thread ever acquires
\* a connection for, or sends to the backend, such a text.
C38_WritesRejectedBeforeAcquire ==
    /\ [][\A t \in Threads :
            (/\ pc[t] = "idle"
             /\ pc'[t] # "idle"
             /\ tool'[t].kind = "execute_query"
             /\ ~args.allow_write
             /\ HasWriteWord(query'[t]))
            => (/\ pc'[t] = "done"
                /\ tool'[t].res = "raised"
                /\ acq'[t] = NoAcq
                /\ conn'[t] = 0
                /\ connection_pool' = connection_pool
                /\ conns' = conns)]_vars
    /\ [](\A t \in Threads :
            (/\ tool[t].kind = "execute_query"
             /\ ~args.allow_write
             /\ HasWriteWord(query[t]))
            => pc[t] \in {"idle", "done"} /\ conn[t] = 0 /\ acq[t] = NoAcq)

\* a query with "insert" in lower case inside its text has been rejected
\* while a connection is idle in the pool, the server not allowing writes
C38_Witness ==
    /\ ~args.allow_write
    /\ pc[1] = "done"
    /\ query[1] = <<"x", " ", "i", "n", "s", "e", "r", "t", " ", "x">>
    /\ tool[1].res = "raised"
    /\ acq[1] = NoAcq
    /\ \E k \in DOMAIN connection_pool : Len(connection_pool[k]) > 0

=============================================================================
